---------------------------- MODULE Spec2Model ----------------------------
(***************************************************************************)
(* Model of the PillNow verifier (backend/verifier/main.py).               *)
(*                                                                         *)
(* Numbers.  Confidences are integers in percent (0.3 is 30).  Box         *)
(* coordinates are integer pixels.  A Python float that is the quotient    *)
(* of two such numbers (an IoU, a mean confidence) is the exact rational   *)
(* [num, den] with den > 0; 0.0 is [num |-> 0, den |-> 1].                 *)
(*                                                                         *)
(* Strings.  A Python str is a sequence of one-character strings; None is  *)
(* the value PyNone.                                                       *)
(***************************************************************************)
EXTENDS Integers, Sequences, FiniteSets, TLC

(***************************************************************************)
(* Bounds of the model.                                                    *)
(***************************************************************************)
MaxDet == 3
MaxCount == 2
MaxCoord == 2
\* seconds the clock of the bridge advances
MaxTicks == 6
\* ALARM_STOPPED lines the serial reader reads
MaxStops == 4
\* MQTT messages the bridge receives while its threads are followed
MaxMessages == 2

(***************************************************************************)
(* Program constants.                                                      *)
(***************************************************************************)
\* CONNECT_RETRY_SECONDS = 5
CONNECT_RETRY_SECONDS == 5
\* chunk_size = 64
chunk_size == 64
\* if now - last < 5: the window of the ALARM_STOPPED debounce, seconds
StopWindowSeconds == 5
\* yolo_model(img_cv, conf=0.3, ...): the detector's confidence floor, percent
YoloConf == 30
\* if iou > 0.5: the duplicate threshold, percent
DupIouPercent == 50
\* confidence_threshold = 0.3, percent
confidence_threshold == 30

(***************************************************************************)
(* Python values.                                                          *)
(***************************************************************************)
PyNone == [t |-> "none"]
PyStr(s) == [t |-> "str", v |-> s]
PyInt(i) == [t |-> "int", v |-> i]
PyBool(b) == [t |-> "bool", v |-> b]
\* the float num / den, num >= 0 and den > 0
PyFloat(n, d) == [t |-> "float", num |-> n, den |-> d]
PyList(items) == [t |-> "list", v |-> items]

\* bool(x) for the values the model uses
Truthy(x) ==
    CASE x.t = "none"  -> FALSE
      [] x.t = "str"   -> x.v # <<>>
      [] x.t = "int"   -> x.v # 0
      [] x.t = "bool"  -> x.v
      [] x.t = "float" -> x.num # 0
      [] x.t = "list"  -> x.v # <<>>
      [] OTHER         -> TRUE

\* a or b
PyOr(a, b) == IF Truthy(a) THEN a ELSE b

LowerChar(c) == IF c = "A" THEN "a" ELSE IF c = "B" THEN "b" ELSE c

\* str.lower()
Lower(s) == [i \in 1..Len(s) |-> LowerChar(s[i])]

RECURSIVE LStrip(_)
LStrip(s) == IF s # <<>> /\ Head(s) = " " THEN LStrip(Tail(s)) ELSE s

RECURSIVE RStrip(_)
RStrip(s) ==
    IF s # <<>> /\ s[Len(s)] = " " THEN RStrip(SubSeq(s, 1, Len(s) - 1)) ELSE s

\* str.strip()
Strip(s) == RStrip(LStrip(s))

\* dict.get(key): None when the key is missing
DictGet(obj, key) == IF key \in DOMAIN obj THEN obj[key] ELSE PyNone

(***************************************************************************)
(* calculate_iou(box1, box2).  A box is <<x1, y1, x2, y2>>.                *)
(***************************************************************************)
Max(a, b) == IF a >= b THEN a ELSE b
Min(a, b) == IF a <= b THEN a ELSE b

Zero == [num |-> 0, den |-> 1]

BoxArea(box) == (box[3] - box[1]) * (box[4] - box[2])

\* the union taken as area1 + area2, the intersection counted twice
calculate_iou_UnionNotReduced(b1, b2) ==
    LET x1_i == Max(b1[1], b2[1])
        y1_i == Max(b1[2], b2[2])
        x2_i == Min(b1[3], b2[3])
        y2_i == Min(b1[4], b2[4])
        intersection == (x2_i - x1_i) * (y2_i - y1_i)
        union == BoxArea(b1) + BoxArea(b2)
    IN  IF x2_i <= x1_i \/ y2_i <= y1_i
        THEN Zero
        ELSE IF union > 0 THEN [num |-> intersection, den |-> union] ELSE Zero

calculate_iou(box1, box2) ==
    LET x1_i == Max(box1[1], box2[1])
        y1_i == Max(box1[2], box2[2])
        x2_i == Min(box1[3], box2[3])
        y2_i == Min(box1[4], box2[4])
        intersection == (x2_i - x1_i) * (y2_i - y1_i)
        area1 == BoxArea(box1)
        area2 == BoxArea(box2)
        union == area1 + area2 - intersection
    IN  IF x2_i <= x1_i \/ y2_i <= y1_i
        THEN Zero
        ELSE IF union > 0 THEN [num |-> intersection, den |-> union] ELSE Zero

\* iou > 0.5
IsDuplicateIou(iou) == 100 * iou.num > DupIouPercent * iou.den

(***************************************************************************)
(* all_detections.sort(key=confidence, reverse=True): a stable sort, so    *)
(* equal confidences keep their relative order.                            *)
(***************************************************************************)
\* an unstable sort: a detection goes before those of equal confidence
RECURSIVE InsertByConfidence_TiesReversed(_, _)
InsertByConfidence_TiesReversed(sorted, det) ==
    IF sorted = <<>> THEN <<det>>
    ELSE IF Head(sorted).confidence > det.confidence
         THEN <<Head(sorted)>> \o InsertByConfidence_TiesReversed(Tail(sorted), det)
         ELSE <<det>> \o sorted

RECURSIVE InsertByConfidence(_, _)
InsertByConfidence(sorted, det) ==
    IF sorted = <<>> THEN <<det>>
    ELSE IF Head(sorted).confidence >= det.confidence
         THEN <<Head(sorted)>> \o InsertByConfidence(Tail(sorted), det)
         ELSE <<det>> \o sorted

RECURSIVE SortByConfidence(_)
SortByConfidence(dets) ==
    IF dets = <<>> THEN <<>>
    ELSE InsertByConfidence(SortByConfidence(SubSeq(dets, 1, Len(dets) - 1)),
                            dets[Len(dets)])

(***************************************************************************)
(* The duplicate filter: the loop over the sorted all_detections.          *)
(***************************************************************************)
\* only an accepted detection of the same class makes a duplicate
is_duplicate_SameLabelOnly(det, filtered) ==
    \E i \in 1..Len(filtered) :
        /\ filtered[i].class_name = det.class_name
        /\ IsDuplicateIou(calculate_iou(det.box, filtered[i].box))

\* only the detection accepted last is compared
is_duplicate_LastOnly(det, filtered) ==
    /\ filtered # <<>>
    /\ IsDuplicateIou(calculate_iou(det.box, filtered[Len(filtered)].box))

is_duplicate(det, filtered) ==
    \E i \in 1..Len(filtered) :
        IsDuplicateIou(calculate_iou(det.box, filtered[i].box))

\* accepted detections are put in front: the output is in reverse order
RECURSIVE FilterDuplicates_Prepend(_, _)
FilterDuplicates_Prepend(dets, filtered) ==
    IF dets = <<>> THEN filtered
    ELSE FilterDuplicates_Prepend(Tail(dets),
                          IF is_duplicate(Head(dets), filtered)
                          THEN filtered
                          ELSE <<Head(dets)>> \o filtered)

RECURSIVE FilterDuplicates(_, _)
FilterDuplicates(dets, filtered) ==
    IF dets = <<>> THEN filtered
    ELSE FilterDuplicates(Tail(dets),
                          IF is_duplicate(Head(dets), filtered)
                          THEN filtered
                          ELSE Append(filtered, Head(dets)))

(***************************************************************************)
(* Counting by class: detections_by_class is a dict, so detected_classes   *)
(* lists each exact label once, in order of first occurrence.              *)
(***************************************************************************)
\* labels that differ in letter case only are counted together
RECURSIVE CountByClass_CaseFolded(_, _)
CountByClass_CaseFolded(dets, classes) ==
    IF dets = <<>> THEN classes
    ELSE LET class_name == Head(dets).class_name
             known == \E i \in 1..Len(classes) :
                          Lower(classes[i].label) = Lower(class_name)
         IN  CountByClass_CaseFolded(Tail(dets),
                 IF known
                 THEN [i \in 1..Len(classes) |->
                         IF Lower(classes[i].label) = Lower(class_name)
                         THEN [classes[i] EXCEPT !.n = @ + 1]
                         ELSE classes[i]]
                 ELSE Append(classes, [label |-> class_name, n |-> 1]))

RECURSIVE CountByClass(_, _)
CountByClass(dets, classes) ==
    IF dets = <<>> THEN classes
    ELSE LET class_name == Head(dets).class_name
             known == \E i \in 1..Len(classes) : classes[i].label = class_name
         IN  CountByClass(Tail(dets),
                 IF known
                 THEN [i \in 1..Len(classes) |->
                         IF classes[i].label = class_name
                         THEN [classes[i] EXCEPT !.n = @ + 1]
                         ELSE classes[i]]
                 ELSE Append(classes, [label |-> class_name, n |-> 1]))

RECURSIVE SumN(_)
SumN(classes) == IF classes = <<>> THEN 0 ELSE Head(classes).n + SumN(Tail(classes))

RECURSIVE SumConfidence(_)
SumConfidence(dets) ==
    IF dets = <<>> THEN 0 ELSE Head(dets).confidence + SumConfidence(Tail(dets))

RECURSIVE SumWeighted(_)
SumWeighted(dets) ==
    IF dets = <<>> THEN 0
    ELSE Head(dets).confidence * Head(dets).area + SumWeighted(Tail(dets))

RECURSIVE SumArea(_)
SumArea(dets) == IF dets = <<>> THEN 0 ELSE Head(dets).area + SumArea(Tail(dets))

\* the mean weighted by area, the plain mean when the areas add up to 0
MeanConfidence_AreaWeighted(dets) ==
    IF dets = <<>> THEN Zero
    ELSE IF SumArea(dets) > 0
         THEN [num |-> SumWeighted(dets), den |-> SumArea(dets)]
         ELSE [num |-> SumConfidence(dets), den |-> Len(dets)]

\* np.mean(all_confidences) if all_confidences else 0.0
MeanConfidence(dets) ==
    IF dets = <<>> THEN Zero
    ELSE [num |-> SumConfidence(dets), den |-> Len(dets)]

\* confidence >= confidence_threshold
ReachesThreshold(conf) == conf.num >= confidence_threshold * conf.den

(***************************************************************************)
(* The expectation: expected_count and expected_label from expected_obj.   *)
(***************************************************************************)
\* isinstance(expected_obj, dict): a JSON object is a function from its
\* keys, any other JSON value is one of the Python values above
IsDict(obj) == "t" \notin DOMAIN obj

Digits == <<"0", "1", "2", "3", "4", "5", "6", "7", "8", "9">>

DigitValue(c) == CHOOSE d \in 0..9 : Digits[d + 1] = c

IsDigits(s) ==
    /\ s # <<>>
    /\ \A i \in 1..Len(s) : \E d \in 1..10 : Digits[d] = s[i]

\* the number a string of digits writes
RECURSIVE DecimalValue(_)
DecimalValue(s) ==
    IF s = <<>> THEN 0
    ELSE 10 * DecimalValue(SubSeq(s, 1, Len(s) - 1)) + DigitValue(s[Len(s)])

\* int(x): PyInt of the value, or None where int() raises
IntOf(x) ==
    CASE x.t = "int"   -> x
      [] x.t = "bool"  -> PyInt(IF x.v THEN 1 ELSE 0)
      [] x.t = "float" -> PyInt(x.num \div x.den)
      [] x.t = "str"   ->
            LET body == Strip(x.v)
            IN  IF IsDigits(body) THEN PyInt(DecimalValue(body))
                ELSE IF body # <<>> /\ Head(body) = "-" /\ IsDigits(Tail(body))
                THEN PyInt(0 - DecimalValue(Tail(body)))
                ELSE PyNone
      [] OTHER         -> PyNone

\* int(expected_obj["count"]), 0 when expected_obj is not a dict, the key
\* is missing or int() raises
ParseCount(obj) ==
    IF IsDict(obj) /\ "count" \in DOMAIN obj
    THEN IF IntOf(obj["count"]) # PyNone THEN IntOf(obj["count"]).v ELSE 0
    ELSE 0

\* str(n) for n >= 0
RECURSIVE Decimal(_)
Decimal(n) == IF n < 10 THEN <<Digits[n + 1]>> ELSE Decimal(n \div 10) \o <<Digits[(n % 10) + 1]>>

\* str(x) for a str, an int, a bool or None
StrOf(x) ==
    CASE x.t = "str"  -> x.v
      [] x.t = "int"  ->
            IF x.v < 0 THEN <<"-">> \o Decimal(0 - x.v) ELSE Decimal(x.v)
      [] x.t = "bool" ->
            IF x.v THEN <<"T", "r", "u", "e">> ELSE <<"F", "a", "l", "s", "e">>
      [] OTHER        -> <<"N", "o", "n", "e">>

\* label or pill or pillType or pill_name, then str(..).strip().lower()
ParseLabel(obj) ==
    LET raw == PyOr(DictGet(obj, "label"),
                 PyOr(DictGet(obj, "pill"),
                   PyOr(DictGet(obj, "pillType"), DictGet(obj, "pill_name"))))
    IN  IF ~IsDict(obj) THEN PyNone
        ELSE IF Truthy(raw) THEN PyStr(Lower(Strip(StrOf(raw)))) ELSE raw

(***************************************************************************)
(* The verdict: lines 467-526.                                             *)
(***************************************************************************)
\* sum(c.n for c in detected_classes if ...), over the entries at idx
SumAt(classes, idx) ==
    SumN([i \in 1..Len(classes) |->
            IF i \in idx THEN classes[i] ELSE [classes[i] EXCEPT !.n = 0]])

\* Decide with one of its checks changed (m names the change)
DecideChanged(classes, count, conf, label, want, m) ==
    IF Truthy(label)
    THEN LET IsExpected == {i \in 1..Len(classes) : Lower(classes[i].label) = label.v}
             IsForeign == {i \in 1..Len(classes) : Lower(classes[i].label) # label.v}
             detected_labels == {Lower(classes[i].label) : i \in 1..Len(classes)}
             expected_type_count == SumAt(classes, IsExpected)
             foreign_type_count == SumAt(classes, IsForeign)
             has_foreign_pills == foreign_type_count > 0
             has_expected_type == label.v \in detected_labels
             count_match ==
                 IF want > 0 /\ m # "no count check"
                 THEN expected_type_count = want ELSE TRUE
         IN  IF has_foreign_pills /\ (m = "count before foreign" => ~count_match)
             THEN FALSE
             ELSE IF ~has_expected_type /\ m # "no presence check" THEN FALSE
             ELSE IF ~count_match THEN FALSE
             ELSE TRUE
    ELSE LET count_match ==
                 IF want > 0 /\ m # "no total check" THEN count = want ELSE TRUE
         IN  /\ count_match
             /\ IF m = "strict threshold"
                THEN conf.num > confidence_threshold * conf.den
                ELSE ReachesThreshold(conf)

\* the count check is skipped
Decide_NoCountCheck(classes, count, conf, label, want) ==
    DecideChanged(classes, count, conf, label, want, "no count check")

\* a matching count outranks a foreign label
Decide_CountBeforeForeign(classes, count, conf, label, want) ==
    DecideChanged(classes, count, conf, label, want, "count before foreign")

\* the expected label need not be present
Decide_NoPresenceCheck(classes, count, conf, label, want) ==
    DecideChanged(classes, count, conf, label, want, "no presence check")

\* without a label the total is not compared
Decide_NoTotalCheck(classes, count, conf, label, want) ==
    DecideChanged(classes, count, conf, label, want, "no total check")

\* confidence > threshold instead of >=
Decide_StrictThreshold(classes, count, conf, label, want) ==
    DecideChanged(classes, count, conf, label, want, "strict threshold")

\* pass_ as lines 473-525 leave it.  Line 473 first sets
\* pass_ = detected_count > 0 and confidence >= confidence_threshold, and
\* every branch below overwrites it.
Decide(classes, count, conf, label, want) ==
    IF Truthy(label)
    THEN LET IsExpected == {i \in 1..Len(classes) : Lower(classes[i].label) = label.v}
             IsForeign == {i \in 1..Len(classes) : Lower(classes[i].label) # label.v}
             detected_labels == {Lower(classes[i].label) : i \in 1..Len(classes)}
             expected_type_count == SumAt(classes, IsExpected)
             foreign_type_count == SumAt(classes, IsForeign)
             has_foreign_pills == foreign_type_count > 0
             has_expected_type == label.v \in detected_labels
             count_match == IF want > 0 THEN expected_type_count = want ELSE TRUE
         IN  IF has_foreign_pills THEN FALSE
             ELSE IF ~has_expected_type THEN FALSE
             ELSE IF ~count_match THEN FALSE
             ELSE TRUE
    ELSE LET count_match == IF want > 0 THEN count = want ELSE TRUE
         IN  count_match /\ ReachesThreshold(conf)

(***************************************************************************)
(* The classifier cross-check: lines 535-695, and the summary of lines     *)
(* 715-750.  A prediction is the class knn_model.predict returns for the   *)
(* region of a survivor, or None when the region is skipped or the         *)
(* prediction fails.                                                       *)
(***************************************************************************)
\* one entry of knn_verification_results
KnnRecord(i, det, prediction, label) ==
    IF prediction = PyNone
    THEN [detection_index |-> i, yolo_class |-> det.class_name,
          knn_class |-> PyNone, matches_yolo |-> FALSE,
          matches_expected |-> ~Truthy(label)]
    ELSE LET knn_class == Lower(prediction.v)
         IN  [detection_index |-> i, yolo_class |-> det.class_name,
              knn_class |-> PyStr(knn_class),
              matches_yolo |-> Lower(det.class_name) = knn_class,
              matches_expected |->
                  IF Truthy(label) THEN knn_class = label.v ELSE TRUE]

\* the indices knn_foreign_pills holds
KnnForeignPills(records, label) ==
    {i \in 1..Len(records) :
        /\ records[i].knn_class # PyNone
        /\ Truthy(label)
        /\ ~records[i].matches_expected}

KnnYoloMatches(records) ==
    Cardinality({i \in 1..Len(records) : records[i].matches_yolo})

KnnExpectedMatches(records) ==
    Cardinality({i \in 1..Len(records) : records[i].matches_expected})

\* confidence * 0.7
Damped(conf) == [num |-> 7 * conf.num, den |-> 10 * conf.den]

\* the confidence is degraded when the agreement is 50% or more
KnnPolicy_DampsOnAgreement(records, label, p, conf) ==
    IF records = <<>>
    THEN [pass_ |-> p, confidence |-> conf]
    ELSE IF Truthy(label) /\ KnnForeignPills(records, label) # {}
    THEN [pass_ |-> FALSE, confidence |-> conf]
    ELSE IF 2 * KnnYoloMatches(records) >= Len(records)
    THEN [pass_ |-> p, confidence |-> Damped(conf)]
    ELSE [pass_ |-> p, confidence |-> conf]

\* lines 661-688: what the recorded results do to pass_ and confidence
KnnPolicy(records, label, p, conf) ==
    IF records = <<>>
    THEN [pass_ |-> p, confidence |-> conf]
    ELSE IF Truthy(label) /\ KnnForeignPills(records, label) # {}
    THEN [pass_ |-> FALSE, confidence |-> conf]
    ELSE IF 2 * KnnYoloMatches(records) < Len(records)
    THEN [pass_ |-> p, confidence |-> Damped(conf)]
    ELSE [pass_ |-> p, confidence |-> conf]

\* line 545: if False and knn_model is not None and len(filtered_detections) > 0
KnnGate(model, dets) == FALSE /\ model /\ Len(dets) > 0

\* lines 535-695: the results recorded, and pass_ and confidence afterwards
KnnCrossCheck(model, dets, predictions, label, p, conf) ==
    IF KnnGate(model, dets)
    THEN LET records ==
                 [i \in 1..Len(dets) |->
                     KnnRecord(i - 1, dets[i], predictions[i], label)]
             after == KnnPolicy(records, label, p, conf)
         IN  [results |-> records, pass_ |-> after.pass_,
              confidence |-> after.confidence]
    ELSE [results |-> <<>>, pass_ |-> p, confidence |-> conf]

\* x / total if total > 0 else 0
RateOf(x, total) == IF total > 0 THEN [num |-> x, den |-> total] ELSE Zero

\* lines 715-750: knn_verification_data
KnnVerificationData(model, records) ==
    LET classified ==
            Cardinality({i \in 1..Len(records) : records[i].knn_class # PyNone})
        foreign ==
            Cardinality({i \in 1..Len(records) :
                            /\ records[i].knn_class # PyNone
                            /\ ~records[i].matches_expected})
    IN  [enabled |-> IF records # <<>> THEN TRUE ELSE model,
         attempted |-> Len(records),
         successful |-> classified,
         total_verified |-> classified,
         yolo_knn_matches |-> KnnYoloMatches(records),
         yolo_knn_match_rate |-> RateOf(KnnYoloMatches(records), Len(records)),
         expected_matches |-> KnnExpectedMatches(records),
         expected_match_rate |-> RateOf(KnnExpectedMatches(records), Len(records)),
         foreign_pills_detected |-> foreign,
         results |-> records]

(***************************************************************************)
(* Inputs.                                                                 *)
(***************************************************************************)
\* result.names: the class names of the detector model
ClassNames == {<<"a">>, <<"A">>, <<"b">>}

\* confidences the network proposes, percent
ConfValues == {20, 30, 90}

\* boxes of one row of pills: P1 overlaps P2 and P3 by 2/3, P2 and P3 overlap
\* by 1/3, P3 and P4 by exactly 1/2, P2 and P4 do not intersect
PillBoxes == {<<0, 0, 3, 1>>, <<1, 0, 3, 1>>, <<0, 0, 2, 1>>, <<0, 0, 1, 1>>}

\* two pills that overlap by 1/3
TwoPills == {<<0, 0, 3, 1>>, <<0, 0, 1, 1>>}

\* what the network can propose for an image: any of the class names
Candidates == [class_name : ClassNames, confidence : ConfValues, box : TwoPills]

\* what the network can propose for a row of overlapping pills
RowCandidates ==
    [class_name : {<<"a">>, <<"b">>}, confidence : ConfValues, box : PillBoxes]

\* the expected form field: a string that is not JSON, or a JSON object
BadJson == [syntax |-> PyStr(<<"{">>)]

\* expected = "{}", the default of the form field
EmptyObj == [k \in {} |-> PyNone]

\* expected = "", an empty form field
EmptyField == [field |-> PyStr(<<>>)]

\* json.loads(expected) if expected else {}, for an expected that parses
JsonLoads(field) == IF field = EmptyField THEN EmptyObj ELSE field

ExpectedLabels == {<<"A", " ">>, <<"b">>}

\* counts a request can ask for; 0 and below leave the count unconstrained
ExpectedCounts == (0 - 1)..MaxCount

ExpectedObjs ==
    {[k \in {"count"} |-> PyInt(c)] : c \in ExpectedCounts}
    \cup {[k \in {"label", "count"} |->
             IF k = "label" THEN PyStr(l) ELSE PyInt(c)] :
          l \in ExpectedLabels, c \in ExpectedCounts}

\* values a request can give under the four label keys; a number only
\* under "label"
LabelKeys == <<"label", "pill", "pillType", "pill_name">>

LabelStrings == {PyStr(<<>>), PyStr(<<" ">>), PyStr(<<" ", "A">>), PyStr(<<"b">>)}

LabelObjs ==
    UNION {[keys -> LabelStrings \cup {PyInt(0), PyInt(5)}] :
              keys \in SUBSET {LabelKeys[i] : i \in 1..4}}

LabelledObjs ==
    {obj \in LabelObjs :
        \A k \in DOMAIN obj : k # "label" => obj[k] \in LabelStrings}

\* values a request can give as its count
CountValues ==
    {PyInt(2), PyInt(0 - 1), PyStr(<<"2">>), PyStr(<<" ", "1">>),
     PyStr(<<"x">>), PyStr(<<>>), PyNone, PyFloat(3, 2), PyBool(TRUE),
     PyList(<<PyInt(2)>>)}

CountedObjs ==
    {[k \in {"count"} |-> c] : c \in CountValues}
    \cup {[k \in {"pill", "count"} |->
              IF k = "pill" THEN PyStr(<<" ", "A">>) ELSE c] : c \in CountValues}

\* JSON texts that are not objects: null, 3, "b", [2]
NonObjects == {PyNone, PyInt(3), PyStr(<<"b">>), PyList(<<PyInt(2)>>)}

\* every kind of expected field
BoundaryInputs ==
    {BadJson, EmptyField} \cup NonObjects \cup CountedObjs \cup LabelledObjs

\* what the network can propose for two pills of one class side by side
SidePills ==
    [class_name : {<<"a">>}, confidence : {90},
     box : {<<0, 0, 1, 1>>, <<1, 0, 2, 1>>}]

\* P1 and P2 overlap by 2/3; P4 overlaps P1 by 1/3 and P2 not at all
OverlapBoxes == {<<0, 0, 3, 1>>, <<1, 0, 3, 1>>, <<0, 0, 1, 1>>}

\* what the network can propose for pills of two classes that overlap
OverlapCandidates ==
    [class_name : {<<"a">>, <<"b">>}, confidence : {50, 90}, box : OverlapBoxes]

\* expected fields that name class a, with and without a count
OverlapExpected ==
    {[k \in {"label"} |-> PyStr(<<"a">>)],
     [k \in {"label", "count"} |->
         IF k = "label" THEN PyStr(<<"A">>) ELSE PyInt(1)]}

\* what the network can propose when the classifier is looked at
CrossCandidates ==
    [class_name : {<<"a">>, <<"b">>}, confidence : {30, 90}, box : TwoPills]

\* expected fields when the classifier is looked at
CrossExpected ==
    {EmptyObj,
     [k \in {"label"} |-> PyStr(<<"b">>)],
     [k \in {"label", "count"} |->
         IF k = "label" THEN PyStr(<<"B", " ">>) ELSE PyInt(1)]}

\* what the classifier can answer for a survivor's region
KnnPredictions == {PyStr(<<"A">>), PyStr(<<"b">>), PyNone}

\* values of int(time.time() * 1000)
ClockMs == {1000, 1001}

\* all boxes of the grid with x1 <= x2 and y1 <= y2, zero-area boxes included
GridBoxes ==
    {<<x1, y1, x2, y2>> : x1 \in 0..MaxCoord, y1 \in 0..MaxCoord,
                          x2 \in 0..MaxCoord, y2 \in 0..MaxCoord}

OrderedBoxes == {b \in GridBoxes : b[1] <= b[3] /\ b[2] <= b[4]}

(***************************************************************************)
(* State.                                                                  *)
(***************************************************************************)
VARIABLES
    pc,                  \* where the verify handler is
    yolo_model,          \* TRUE when load_models loaded the detector
    expected,            \* the request's expected form field
    image_ok,            \* whether Image.open decodes the upload
    expected_count,
    expected_label,
    results,             \* what yolo_model(...) returned, in its order
    all_detections,
    filtered_detections,
    detected_classes,
    detected_count,
    confidence,
    pass_,
    response,            \* the VerifyResponse, or the HTTP error
    box1, box2, iou,     \* one call of calculate_iou
    knn_model,           \* TRUE when load_models loaded the classifier
    knn_predictions,     \* what knn_model.predict gives for each survivor
    knn_verification_results,
    annotated_path,      \* where the annotated image is saved, or None
    clock,               \* int(time.time() * 1000) when the image is saved
    captures_ok          \* whether the captures directory can be made

\* the bridge (backend/arduino_alert_bridge.py)
VARIABLES
    mqtt_pc,             \* where the main thread is: main(), then on_message
    payload,             \* the MQTT payload on_message is handling
    command,             \* the argument of send_to_arduino
    written,             \* the chunks written to the link for this payload
    arduino_serial,      \* "none", "open" or "closed"
    last_connect_attempt,
    now,                 \* time.time(), in seconds
    port_present,        \* whether find_arduino_port finds a port
    last_stop_ts,        \* serial_read_loop's dict, container number -> time
    stops,               \* the ALARM_STOPPED lines read, in order
    callbacks            \* the POSTs to /alarm/stopped/<container>, in order

\* MOCK_VERIFIER, line 12: set from the environment when the module loads
VARIABLE MOCK_VERIFIER

\* the bridge's threads, followed step by step
VARIABLES
    arduino_lock,        \* "free", or the thread that holds it
    reconnect_pc,        \* where arduino_reconnect_loop is
    reconnect_wake,      \* when its time.sleep(CONNECT_RETRY_SECONDS) ends
    port_busy,           \* whether serial.Serial(port, ...) raises
    attempts,            \* the times connect_arduino went on to the port
    deliveries           \* the send_to_arduino calls that returned, in order

verifyVars == <<pc, yolo_model, expected, image_ok, expected_count,
                expected_label, results, all_detections, filtered_detections,
                detected_classes, detected_count, confidence, pass_, response>>

iouVars == <<box1, box2, iou>>

sideVars ==
    <<knn_model, knn_predictions, knn_verification_results, annotated_path,
      clock, captures_ok, MOCK_VERIFIER>>

threadVars == <<arduino_lock, reconnect_pc, reconnect_wake, deliveries>>

bridgeVars ==
    <<mqtt_pc, payload, command, written, arduino_serial,
      last_connect_attempt, now, port_present, last_stop_ts, stops, callbacks,
      threadVars, port_busy, attempts>>

vars == <<verifyVars, iouVars, sideVars, bridgeVars>>

NoResponse == [kind |-> "none"]

\* raise HTTPException(status_code=400, ...)
Http400 == [kind |-> "error", status_code |-> 400]

VerifyResponse(p, n, classes, conf, path, knn) ==
    [kind |-> "verdict", pass_ |-> p, count |-> n,
     classesDetected |-> classes, confidence |-> conf,
     annotatedImagePath |-> path, knnVerification |-> knn]

\* the values computed so far are returned
FailureResponse_PartialResults ==
    VerifyResponse(pass_, detected_count, detected_classes, confidence,
                   PyNone, PyNone)

\* the except branch of the inference block: knnVerification keeps its
\* default, None
FailureResponse == VerifyResponse(FALSE, 0, <<>>, Zero, PyNone, PyNone)

\* POST /verify is entered with one of the given expected fields, an upload
\* that decodes or not, and the detector loaded at startup or not; the
\* locals are as lines 245-246 and 299-302 set them
VerifyEntry(inputs) ==
    /\ pc = "parse"
    /\ yolo_model \in BOOLEAN
    /\ expected \in inputs
    /\ image_ok \in BOOLEAN
    /\ expected_count = 0
    /\ expected_label = PyNone
    /\ results = <<>>
    /\ all_detections = <<>>
    /\ filtered_detections = <<>>
    /\ detected_classes = <<>>
    /\ detected_count = 0
    /\ confidence = Zero
    /\ pass_ = FALSE
    /\ response = NoResponse
    /\ knn_predictions = <<>>
    /\ knn_verification_results = <<>>
    /\ annotated_path = PyNone

\* time.time() counts from 1970: the clock of the model starts at the
\* first value for which now - 0 >= CONNECT_RETRY_SECONDS, as with any
\* real clock, and a first connection attempt is never rate-limited
StartTime == CONNECT_RETRY_SECONDS

\* the bridge as its module is loaded (lines 33-36), main() not yet run
BridgeLoaded ==
    /\ mqtt_pc = "main"
    /\ payload = PyNone
    /\ command = PyNone
    /\ written = <<>>
    /\ arduino_serial = "none"
    /\ last_connect_attempt = 0
    /\ now = StartTime
    /\ port_present = FALSE
    /\ last_stop_ts = <<>>
    /\ stops = <<>>
    /\ callbacks = <<>>
    /\ arduino_lock = "free"
    /\ reconnect_pc = "sleep"
    /\ reconnect_wake = StartTime
    /\ port_busy = FALSE
    /\ attempts = <<>>
    /\ deliveries = <<>>

IouIdle ==
    /\ box1 = <<0, 0, 0, 0>>
    /\ box2 = <<0, 0, 0, 0>>
    /\ iou = Zero

\* load_models found no classifier file: knn_model stays None; the
\* captures directory exists, the clock is at its first value, and
\* MOCK_VERIFIER is not set in the environment
NoClassifier ==
    /\ knn_model = FALSE
    /\ captures_ok = TRUE
    /\ clock = 1000
    /\ MOCK_VERIFIER = FALSE

Init ==
    /\ VerifyEntry({BadJson} \cup ExpectedObjs)
    /\ IouIdle
    /\ NoClassifier
    /\ BridgeLoaded

(***************************************************************************)
(* verify: one action per stage of the handler.                            *)
(***************************************************************************)
\* lines 15-24 and 237: under MOCK_VERIFIER the name Image is None, and
\* Image.open raises as it does on an upload that is no image
ImageOpens == image_ok /\ ~MOCK_VERIFIER

PillMock == <<"p", "i", "l", "l", "_", "m", "o", "c", "k">>

\* confidence=0.95
MockConfidence == [num |-> 95, den |-> 100]

\* lines 266-296: the answer of the mock verifier
MockResponse(count, label) ==
    LET cnt == IF count > 0 THEN count ELSE 1
        classes == IF Truthy(label)
                   THEN <<[label |-> label.v, n |-> cnt]>>
                   ELSE <<[label |-> PillMock, n |-> cnt]>>
    IN  VerifyResponse(TRUE, cnt, classes, MockConfidence, PyNone,
            [enabled |-> FALSE,
             attempted |-> 0,
             successful |-> 0,
             total_verified |-> 0,
             yolo_knn_matches |-> 0,
             yolo_knn_match_rate |-> Zero,
             expected_matches |-> IF Truthy(label) THEN cnt ELSE 0,
             expected_match_rate |-> IF Truthy(label) THEN [num |-> 1, den |-> 1]
                                     ELSE Zero,
             foreign_pills_detected |-> 0,
             foreign_pills |-> <<>>,
             results |-> <<>>])

\* a JSON value that is not an object is answered with HTTP 400 as well
ParseRequest_RejectsNonObject ==
    /\ pc = "parse"
    /\ IF expected = BadJson \/ ~ImageOpens \/ ~IsDict(JsonLoads(expected))
       THEN /\ response' = Http400
            /\ pc' = "done"
            /\ UNCHANGED <<expected_count, expected_label>>
       ELSE /\ expected_count' = ParseCount(JsonLoads(expected))
            /\ expected_label' = ParseLabel(JsonLoads(expected))
            /\ IF MOCK_VERIFIER
               THEN /\ response' = MockResponse(expected_count', expected_label')
                    /\ pc' = "done"
               ELSE /\ pc' = "detect"
                    /\ UNCHANGED response
    /\ UNCHANGED <<yolo_model, expected, image_ok, results, all_detections,
                   filtered_detections, detected_classes, detected_count,
                   confidence, pass_>>
    /\ UNCHANGED <<iouVars, sideVars, bridgeVars>>

\* lines 229-296: json.loads, Image.open, expected_count, expected_label,
\* and the answer of the mock verifier
ParseRequest ==
    /\ pc = "parse"
    /\ IF expected = BadJson \/ ~ImageOpens
       THEN /\ response' = Http400
            /\ pc' = "done"
            /\ UNCHANGED <<expected_count, expected_label>>
       ELSE /\ expected_count' = ParseCount(JsonLoads(expected))
            /\ expected_label' = ParseLabel(JsonLoads(expected))
            /\ IF MOCK_VERIFIER
               THEN /\ response' = MockResponse(expected_count', expected_label')
                    /\ pc' = "done"
               ELSE /\ pc' = "detect"
                    /\ UNCHANGED response
    /\ UNCHANGED <<yolo_model, expected, image_ok, results, all_detections,
                   filtered_detections, detected_classes, detected_count,
                   confidence, pass_>>
    /\ UNCHANGED <<iouVars, sideVars, bridgeVars>>

\* yolo_model(img, conf=0.3, ...): the boxes at or above the confidence floor
YoloDetect(candidates, conf) ==
    SelectSeq(candidates, LAMBDA d : d.confidence >= conf)

\* boxes of area below 2 are left out
CollectDetections_MinArea(boxes) ==
    LET kept == SelectSeq(boxes, LAMBDA b : BoxArea(b.box) >= 2)
    IN  [i \in 1..Len(kept) |->
            [class_name |-> kept[i].class_name,
             confidence |-> kept[i].confidence,
             box |-> kept[i].box,
             area |-> BoxArea(kept[i].box)]]

\* lines 323-344: one all_detections entry per box, with its area
CollectDetections(boxes) ==
    [i \in 1..Len(boxes) |->
        [class_name |-> boxes[i].class_name,
         confidence |-> boxes[i].confidence,
         box |-> boxes[i].box,
         area |-> BoxArea(boxes[i].box)]]

\* lines 304-346, the network proposing boxes among the given ones
DetectFrom(proposals) ==
    /\ pc = "detect"
    /\ IF ~yolo_model
       THEN /\ response' = FailureResponse
            /\ pc' = "done"
            /\ UNCHANGED <<results, all_detections>>
       ELSE \/ /\ response' = FailureResponse      \* the detector raises
               /\ pc' = "done"
               /\ UNCHANGED <<results, all_detections>>
            \/ \E n \in 0..MaxDet : \E candidates \in [1..n -> proposals] :
                 /\ results' = YoloDetect(candidates, YoloConf)
                 /\ all_detections' = CollectDetections(results')
                 /\ pc' = "dedup"
                 /\ UNCHANGED response
    /\ UNCHANGED <<yolo_model, expected, image_ok, expected_count,
                   expected_label, filtered_detections, detected_classes,
                   detected_count, confidence, pass_>>
    /\ UNCHANGED <<iouVars, sideVars, bridgeVars>>

Detect == DetectFrom(Candidates)

\* lines 370-386
Dedup ==
    /\ pc = "dedup"
    /\ all_detections' = SortByConfidence(all_detections)
    /\ filtered_detections' = FilterDuplicates(all_detections', <<>>)
    /\ pc' = "aggregate"
    /\ UNCHANGED <<yolo_model, expected, image_ok, expected_count,
                   expected_label, results, detected_classes, detected_count,
                   confidence, pass_, response>>
    /\ UNCHANGED <<iouVars, sideVars, bridgeVars>>

\* lines 388-413
Aggregate ==
    /\ pc = "aggregate"
    /\ detected_classes' = CountByClass(filtered_detections, <<>>)
    /\ detected_count' = SumN(detected_classes')
    /\ confidence' = MeanConfidence(filtered_detections)
    /\ pc' = "annotate"
    /\ UNCHANGED <<yolo_model, expected, image_ok, expected_count,
                   expected_label, results, all_detections,
                   filtered_detections, pass_, response>>
    /\ UNCHANGED <<iouVars, sideVars, bridgeVars>>

\* f"annotated_{int(time.time() * 1000)}.jpg", t the clock in milliseconds
AnnotatedFilename(t) == <<"annotated_">> \o Decimal(t) \o <<".jpg">>

\* lines 415-465: the boxes are drawn and the image is saved under a name
\* made from the clock; a failure to save is caught and only printed, and
\* leaves annotated_path None when the directory cannot be made
Annotate ==
    /\ pc = "annotate"
    /\ annotated_path' =
          IF captures_ok THEN PyStr(AnnotatedFilename(clock)) ELSE PyNone
    /\ pc' = "decide"
    /\ UNCHANGED <<yolo_model, expected, image_ok, expected_count,
                   expected_label, results, all_detections,
                   filtered_detections, detected_classes, detected_count,
                   confidence, pass_, response>>
    /\ UNCHANGED <<knn_model, knn_predictions, knn_verification_results,
                   clock, captures_ok, MOCK_VERIFIER>>
    /\ UNCHANGED <<iouVars, bridgeVars>>

\* a verdict computed after the clock has passed 1000 fails
Verdict_FailsWhenLate ==
    /\ pc = "decide"
    /\ pass_' = ( /\ Decide(detected_classes, detected_count, confidence,
                            expected_label, expected_count)
                  /\ clock <= 1000 )
    /\ pc' = "crosscheck"
    /\ UNCHANGED <<yolo_model, expected, image_ok, expected_count,
                   expected_label, results, all_detections,
                   filtered_detections, detected_classes, detected_count,
                   confidence, response>>
    /\ UNCHANGED <<iouVars, sideVars, bridgeVars>>

\* lines 467-526
Verdict ==
    /\ pc = "decide"
    /\ pass_' = Decide(detected_classes, detected_count, confidence,
                       expected_label, expected_count)
    /\ pc' = "crosscheck"
    /\ UNCHANGED <<yolo_model, expected, image_ok, expected_count,
                   expected_label, results, all_detections,
                   filtered_detections, detected_classes, detected_count,
                   confidence, response>>
    /\ UNCHANGED <<iouVars, sideVars, bridgeVars>>

\* lines 535-695: the classifier cross-check
CrossCheck ==
    /\ pc = "crosscheck"
    /\ IF knn_model
       THEN knn_predictions' \in [1..Len(filtered_detections) -> KnnPredictions]
       ELSE knn_predictions' = <<>>
    /\ LET after == KnnCrossCheck(knn_model, filtered_detections,
                                  knn_predictions', expected_label,
                                  pass_, confidence)
       IN  /\ knn_verification_results' = after.results
           /\ pass_' = after.pass_
           /\ confidence' = after.confidence
    /\ pc' = "respond"
    /\ UNCHANGED <<yolo_model, expected, image_ok, expected_count,
                   expected_label, results, all_detections,
                   filtered_detections, detected_classes, detected_count,
                   response>>
    /\ UNCHANGED <<knn_model, annotated_path, clock, captures_ok,
                   MOCK_VERIFIER>>
    /\ UNCHANGED <<iouVars, bridgeVars>>

\* lines 702-713: a statement of the inference block raises, and the
\* except branch returns the failure result
Raise ==
    /\ pc \in {"dedup", "aggregate", "annotate", "decide", "crosscheck"}
    /\ response' = FailureResponse
    /\ pc' = "done"
    /\ UNCHANGED <<yolo_model, expected, image_ok, expected_count,
                   expected_label, results, all_detections,
                   filtered_detections, detected_classes, detected_count,
                   confidence, pass_>>
    /\ UNCHANGED <<iouVars, sideVars, bridgeVars>>

\* lines 752-759
Respond ==
    /\ pc = "respond"
    /\ response' =
          VerifyResponse(pass_, detected_count, detected_classes, confidence,
                         annotated_path,
                         KnnVerificationData(knn_model, knn_verification_results))
    /\ pc' = "done"
    /\ UNCHANGED <<yolo_model, expected, image_ok, expected_count,
                   expected_label, results, all_detections,
                   filtered_detections, detected_classes, detected_count,
                   confidence, pass_>>
    /\ UNCHANGED <<iouVars, sideVars, bridgeVars>>

Next ==
    \/ ParseRequest
    \/ Detect
    \/ Dedup
    \/ Aggregate
    \/ Annotate
    \/ Verdict
    \/ CrossCheck
    \/ Raise
    \/ Respond

Spec == Init /\ [][Next]_vars

(***************************************************************************)
(* verify on a row of overlapping pills, with the default expectation.     *)
(***************************************************************************)
RowInit ==
    VerifyEntry({EmptyObj}) /\ IouIdle /\ NoClassifier /\ BridgeLoaded

RowDetect == DetectFrom(RowCandidates)

RowNext ==
    \/ ParseRequest
    \/ RowDetect
    \/ Dedup
    \/ Aggregate
    \/ Annotate
    \/ Verdict
    \/ CrossCheck
    \/ Raise
    \/ Respond

SpecRow == RowInit /\ [][RowNext]_vars

(***************************************************************************)
(* verify on every kind of expected field, with one class of pills.        *)
(***************************************************************************)
BoundaryInit ==
    VerifyEntry(BoundaryInputs) /\ IouIdle /\ NoClassifier /\ BridgeLoaded

BoundaryDetect == DetectFrom(SidePills)

BoundaryNext ==
    \/ ParseRequest
    \/ BoundaryDetect
    \/ Dedup
    \/ Aggregate
    \/ Annotate
    \/ Verdict
    \/ CrossCheck
    \/ Raise
    \/ Respond

SpecBoundary == BoundaryInit /\ [][BoundaryNext]_vars

(***************************************************************************)
(* verify with an expected label on pills of two classes that overlap.     *)
(***************************************************************************)
OverlapInit ==
    VerifyEntry(OverlapExpected) /\ IouIdle /\ NoClassifier /\ BridgeLoaded

OverlapDetect == DetectFrom(OverlapCandidates)

OverlapNext ==
    \/ ParseRequest
    \/ OverlapDetect
    \/ Dedup
    \/ Aggregate
    \/ Annotate
    \/ Verdict
    \/ CrossCheck
    \/ Raise
    \/ Respond

SpecOverlap == OverlapInit /\ [][OverlapNext]_vars

(***************************************************************************)
(* verify with MOCK_VERIFIER set or not.                                   *)
(***************************************************************************)
MockInit ==
    /\ VerifyEntry(BoundaryInputs)
    /\ IouIdle
    /\ knn_model = FALSE
    /\ captures_ok = TRUE
    /\ clock = 1000
    /\ MOCK_VERIFIER \in BOOLEAN
    /\ BridgeLoaded

SpecMock == MockInit /\ [][BoundaryNext]_vars

(***************************************************************************)
(* verify with or without a classifier loaded, at different times, with    *)
(* the captures directory writable or not.                                 *)
(***************************************************************************)
CrossInit ==
    /\ VerifyEntry(CrossExpected)
    /\ IouIdle
    /\ knn_model \in BOOLEAN
    /\ captures_ok \in BOOLEAN
    /\ clock \in ClockMs
    /\ MOCK_VERIFIER = FALSE
    /\ BridgeLoaded

CrossDetect == DetectFrom(CrossCandidates)

CrossNext ==
    \/ ParseRequest
    \/ CrossDetect
    \/ Dedup
    \/ Aggregate
    \/ Annotate
    \/ Verdict
    \/ CrossCheck
    \/ Raise
    \/ Respond

SpecCross == CrossInit /\ [][CrossNext]_vars

(***************************************************************************)
(* calculate_iou alone, on every pair of boxes of the grid.                *)
(***************************************************************************)
IouInit ==
    /\ VerifyEntry({EmptyObj})
    /\ yolo_model = TRUE
    /\ image_ok = TRUE
    /\ box1 \in OrderedBoxes
    /\ box2 \in OrderedBoxes
    /\ iou = PyNone
    /\ NoClassifier
    /\ BridgeLoaded

CallIou ==
    /\ iou = PyNone
    /\ iou' = calculate_iou(box1, box2)
    /\ UNCHANGED <<box1, box2>>
    /\ UNCHANGED <<verifyVars, sideVars, bridgeVars>>

IouNext == CallIou

SpecIou == IouInit /\ [][IouNext]_vars

(***************************************************************************)
(* The bridge: on_message and send_to_arduino.                             *)
(***************************************************************************)
IsDigit(c) == \E d \in 1..10 : Digits[d] = c

\* ''.join([c for c in s if c.isdigit()])
DigitsOf(s) == SelectSeq(s, IsDigit)

\* payload.get(key, default)
DictGetOr(obj, key, default) == IF key \in DOMAIN obj THEN obj[key] ELSE default

Alert == <<"a", "l", "e", "r", "t">>
AlarmTriggered ==
    <<"a", "l", "a", "r", "m", "_", "t", "r", "i", "g", "g", "e", "r", "e", "d">>
SendSms == <<"s", "e", "n", "d", "_", "s", "m", "s">>

PillAlertC == <<"P", "I", "L", "L", "A", "L", "E", "R", "T", " ", "C">>
AlarmTriggeredC ==
    <<"A", "L", "A", "R", "M", "_", "T", "R", "I", "G", "G", "E", "R", "E", "D",
      " ", "C">>
SendSmsSp == <<"S", "E", "N", "D", "S", "M", "S", " ">>

\* the container number is "1" whatever the payload says
AlertContainerNum_AlwaysOne(container) == <<"1">>

\* lines 170-182: container_num of an alert
AlertContainerNum(container) ==
    IF container.t = "str" /\ Truthy(container)
    THEN IF DigitsOf(container.v) = <<>> THEN <<"0">> ELSE DigitsOf(container.v)
    ELSE IF container.t \in {"int", "bool"}
    THEN StrOf(container)
    ELSE <<"0">>

Unknown == <<"u", "n", "k", "n", "o", "w", "n">>
Container1 == <<"c", "o", "n", "t", "a", "i", "n", "e", "r", "1">>
Midnight == <<"0", "0", ":", "0", "0">>

\* lines 165-186
AlertCommand(p) ==
    PillAlertC \o AlertContainerNum(DictGetOr(p, "container", PyStr(Unknown)))

\* lines 189-205
AlarmTriggeredCommand(p) ==
    LET container == DictGetOr(p, "container", PyStr(Container1))
        date_str == DictGetOr(p, "date", PyStr(<<>>))
        time_str == DictGetOr(p, "time", PyStr(Midnight))
        digits == DigitsOf(StrOf(container))
        container_num == IF digits = <<>> THEN <<"1">> ELSE digits
    IN  IF Truthy(date_str)
        THEN AlarmTriggeredC \o container_num \o <<" ">> \o StrOf(date_str)
                 \o <<" ">> \o StrOf(time_str)
        ELSE AlarmTriggeredC \o container_num \o <<" ">> \o StrOf(time_str)

\* lines 208-229: None when phone or message is missing
SendSmsCommand(p) ==
    LET phone == DictGetOr(p, "phone", PyStr(<<>>))
        message == DictGetOr(p, "message", PyStr(<<>>))
    IN  IF Truthy(phone) /\ Truthy(message)
        THEN PyStr(SendSmsSp \o StrOf(phone) \o <<" ">> \o StrOf(message))
        ELSE PyNone

\* lines 156-238: the command on_message sends for a payload, None when it
\* sends nothing (no JSON, no object, another action)
CommandFor(p) ==
    IF p = BadJson \/ ~IsDict(p) THEN PyNone
    ELSE LET action == DictGet(p, "action")
         IN  IF action = PyStr(Alert) THEN PyStr(AlertCommand(p))
             ELSE IF action = PyStr(AlarmTriggered)
             THEN PyStr(AlarmTriggeredCommand(p))
             ELSE IF action = PyStr(SendSms) THEN SendSmsCommand(p)
             ELSE PyNone

\* lines 102-112: data cut into pieces of chunk_size bytes
RECURSIVE Chunks(_)
Chunks(data) ==
    IF Len(data) <= chunk_size THEN <<data>>
    ELSE <<SubSeq(data, 1, chunk_size)>>
             \o Chunks(SubSeq(data, chunk_size + 1, Len(data)))

\* MQTT payloads
Container2 == <<"c", "o", "n", "t", "a", "i", "n", "e", "r", "2">>

AlertContainers ==
    {PyStr(Container2), PyStr(<<"b", "o", "x">>), PyStr(<<>>), PyInt(3),
     PyBool(TRUE), PyNone}

AlertPayloads ==
    {[action |-> PyStr(Alert)]}
    \cup {[action |-> PyStr(Alert), container |-> c] : c \in AlertContainers}

\* a text message of 60 characters: its command takes two chunks
LongMessage == [i \in 1..60 |-> "x"]

OtherPayloads ==
    {BadJson,
     PyList(<<>>),
     [action |-> PyStr(<<"p", "i", "n", "g">>)],
     [action |-> PyStr(AlarmTriggered), container |-> PyStr(Container2),
      time |-> PyStr(<<"0", "8", ":", "0", "0">>)],
     [action |-> PyStr(SendSms), phone |-> PyStr(<<"1", "2", "3">>),
      message |-> PyStr(LongMessage)],
     [action |-> PyStr(SendSms), phone |-> PyStr(<<"1", "2", "3">>)]}

Payloads == AlertPayloads \cup OtherPayloads

\* the verifier's variables, which the bridge does not touch
verifierVars == <<verifyVars, iouVars, sideVars>>

\* the verifier at rest
VerifierIdle ==
    /\ VerifyEntry({EmptyObj})
    /\ yolo_model = TRUE
    /\ image_ok = TRUE
    /\ IouIdle
    /\ NoClassifier

\* connect_arduino(), lines 55-92: nothing within CONNECT_RETRY_SECONDS of
\* the last attempt; else the attempt is recorded, and with a port found the
\* old handle is closed and serial.Serial either opens or raises
\* the rate limit never holds a call back
RateLimited_Never(t, last) == FALSE

\* lines 61-63: a call within CONNECT_RETRY_SECONDS of the last attempt
RateLimited(t, last) == t - last < CONNECT_RETRY_SECONDS

\* the port is never opened
OpenPort_LeavesLinkDown == UNCHANGED arduino_serial

\* lines 66-92: with no port found the link is left alone; else an open
\* handle is closed and serial.Serial opens the port or raises
OpenPort ==
    IF ~port_present
    THEN UNCHANGED arduino_serial
    ELSE IF port_busy
    THEN arduino_serial' =
             IF arduino_serial = "open" THEN "closed" ELSE arduino_serial
    ELSE arduino_serial' = "open"

ConnectArduino ==
    IF RateLimited(now, last_connect_attempt)
    THEN UNCHANGED <<arduino_serial, last_connect_attempt, attempts>>
    ELSE /\ last_connect_attempt' = now
         /\ attempts' = Append(attempts, now)
         /\ OpenPort

\* main(), line 302: the first connect_arduino(), before any thread runs
MainConnect ==
    /\ mqtt_pc = "main"
    /\ ConnectArduino
    /\ mqtt_pc' = "idle"
    /\ UNCHANGED <<payload, command, written, now, port_present,
                   last_stop_ts, stops, callbacks>>
    /\ UNCHANGED <<threadVars, port_busy>>
    /\ UNCHANGED verifierVars

\* arduino_reconnect_loop, lines 130-139: one turn that finds the link down
ReconnectLoop ==
    /\ mqtt_pc # "main"
    /\ arduino_serial # "open"
    /\ ConnectArduino
    /\ UNCHANGED <<mqtt_pc, payload, command, written, now, port_present,
                   last_stop_ts, stops, callbacks>>
    /\ UNCHANGED <<threadVars, port_busy>>
    /\ UNCHANGED verifierVars

\* on_message, lines 154-238, up to the call of send_to_arduino
OnMessage(p) ==
    /\ mqtt_pc = "idle"
    /\ payload' = p
    /\ written' = <<>>
    /\ command' = CommandFor(p)
    /\ mqtt_pc' = IF CommandFor(p) = PyNone THEN "idle" ELSE "ensure"
    /\ UNCHANGED <<arduino_serial, last_connect_attempt, now, port_present,
                   last_stop_ts, stops, callbacks>>
    /\ UNCHANGED <<threadVars, port_busy, attempts>>
    /\ UNCHANGED verifierVars

Receive == \E p \in Payloads : OnMessage(p)

\* send_to_arduino, lines 97-99: under the lock, connect when the link is
\* not open
EnsureConnection ==
    /\ mqtt_pc = "ensure"
    /\ IF arduino_serial # "open"
       THEN ConnectArduino
       ELSE UNCHANGED <<arduino_serial, last_connect_attempt, attempts>>
    /\ mqtt_pc' = "write"
    /\ UNCHANGED <<payload, command, written, now, port_present,
                   last_stop_ts, stops, callbacks>>
    /\ UNCHANGED <<threadVars, port_busy>>
    /\ UNCHANGED verifierVars

\* send_to_arduino, lines 101-128: with the link open the chunks of the
\* command and its newline are written and flushed one by one; a write or
\* a flush that raises ends the loop after k chunks and the link is closed;
\* with the link down nothing is written
WriteCommand ==
    /\ mqtt_pc = "write"
    /\ IF arduino_serial = "open"
       THEN LET chunks == Chunks(command.v \o <<"\n">>)
            IN  \/ /\ written' = chunks
                   /\ UNCHANGED arduino_serial
                \/ \E k \in 0..Len(chunks) :
                      /\ written' = SubSeq(chunks, 1, k)
                      /\ arduino_serial' = "closed"
       ELSE UNCHANGED <<written, arduino_serial>>
    /\ mqtt_pc' = "idle"
    /\ UNCHANGED <<payload, command, last_connect_attempt, now, port_present,
                   last_stop_ts, stops, callbacks>>
    /\ UNCHANGED <<threadVars, port_busy, attempts>>
    /\ UNCHANGED verifierVars

\* a second passes
Tick ==
    /\ now < StartTime + MaxTicks
    /\ now' = now + 1
    /\ UNCHANGED <<mqtt_pc, payload, command, written, arduino_serial,
                   last_connect_attempt, port_present, last_stop_ts, stops,
                   callbacks>>
    /\ UNCHANGED <<threadVars, port_busy, attempts>>
    /\ UNCHANGED verifierVars

\* the Arduino is plugged in or unplugged, or another program takes or
\* leaves its port
PortChange ==
    /\ \/ port_present' = ~port_present /\ UNCHANGED port_busy
       \/ port_busy' = ~port_busy /\ UNCHANGED port_present
    /\ UNCHANGED <<mqtt_pc, payload, command, written, arduino_serial,
                   last_connect_attempt, now, last_stop_ts, stops, callbacks>>
    /\ UNCHANGED <<threadVars, attempts>>
    /\ UNCHANGED verifierVars

AlertInit == VerifierIdle /\ BridgeLoaded

AlertNext ==
    \/ MainConnect
    \/ ReconnectLoop
    \/ Receive
    \/ EnsureConnection
    \/ WriteCommand
    \/ Tick
    \/ PortChange

SpecAlert == AlertInit /\ [][AlertNext]_vars

(***************************************************************************)
(* The bridge's threads step by step: arduino_reconnect_loop and the MQTT  *)
(* thread in send_to_arduino, with arduino_lock between them.              *)
(***************************************************************************)
\* with arduino_lock, lines 97 and 134: the thread takes the free lock
Acquire_NoLock(thread) == UNCHANGED arduino_lock

Acquire(thread) ==
    /\ arduino_lock = "free"
    /\ arduino_lock' = thread

\* the end of the with block
Release(thread) ==
    arduino_lock' = IF arduino_lock = thread THEN "free" ELSE arduino_lock

\* lines 98-99 and 135-136, then 61-64: with the link open there is no
\* call; a call inside the rate limit returns; any other call records its
\* time and goes on to the port
GoesToPort ==
    /\ arduino_serial # "open"
    /\ ~RateLimited(now, last_connect_attempt)

CheckLink ==
    IF GoesToPort
    THEN /\ last_connect_attempt' = now
         /\ attempts' = Append(attempts, now)
    ELSE UNCHANGED <<last_connect_attempt, attempts>>

\* arduino_reconnect_loop, line 134: the loop wakes and takes the lock
ReconnectAcquire ==
    /\ mqtt_pc # "main"
    /\ reconnect_pc = "sleep"
    /\ now >= reconnect_wake
    /\ Acquire("reconnect")
    /\ reconnect_pc' = "check"
    /\ UNCHANGED <<mqtt_pc, payload, command, written, arduino_serial,
                   last_connect_attempt, now, port_present, last_stop_ts,
                   stops, callbacks, reconnect_wake, deliveries, port_busy,
                   attempts>>
    /\ UNCHANGED verifierVars

\* lines 135-136 and 61-64
ReconnectCheck ==
    /\ reconnect_pc = "check"
    /\ CheckLink
    /\ reconnect_pc' = IF GoesToPort THEN "open" ELSE "release"
    /\ UNCHANGED <<mqtt_pc, payload, command, written, arduino_serial, now,
                   port_present, last_stop_ts, stops, callbacks, arduino_lock,
                   reconnect_wake, deliveries, port_busy>>
    /\ UNCHANGED verifierVars

\* lines 66-92
ReconnectOpen ==
    /\ reconnect_pc = "open"
    /\ OpenPort
    /\ reconnect_pc' = "release"
    /\ UNCHANGED <<mqtt_pc, payload, command, written, last_connect_attempt,
                   now, port_present, last_stop_ts, stops, callbacks,
                   arduino_lock, reconnect_wake, deliveries, port_busy,
                   attempts>>
    /\ UNCHANGED verifierVars

\* lines 134 and 139: the lock is given back and the loop sleeps
ReconnectRelease ==
    /\ reconnect_pc = "release"
    /\ Release("reconnect")
    /\ reconnect_wake' = now + CONNECT_RETRY_SECONDS
    /\ reconnect_pc' = "sleep"
    /\ UNCHANGED <<mqtt_pc, payload, command, written, arduino_serial,
                   last_connect_attempt, now, port_present, last_stop_ts,
                   stops, callbacks, deliveries, port_busy, attempts>>
    /\ UNCHANGED verifierVars

\* send_to_arduino, line 97
SendAcquire ==
    /\ mqtt_pc = "ensure"
    /\ Acquire("mqtt")
    /\ mqtt_pc' = "check"
    /\ UNCHANGED <<payload, command, written, arduino_serial,
                   last_connect_attempt, now, port_present, last_stop_ts,
                   stops, callbacks, reconnect_pc, reconnect_wake, deliveries,
                   port_busy, attempts>>
    /\ UNCHANGED verifierVars

\* lines 98-99 and 61-64
SendCheck ==
    /\ mqtt_pc = "check"
    /\ CheckLink
    /\ mqtt_pc' = IF GoesToPort THEN "open" ELSE "release"
    /\ UNCHANGED <<payload, command, written, arduino_serial, now,
                   port_present, last_stop_ts, stops, callbacks, threadVars,
                   port_busy>>
    /\ UNCHANGED verifierVars

\* lines 66-92
SendOpen ==
    /\ mqtt_pc = "open"
    /\ OpenPort
    /\ mqtt_pc' = "release"
    /\ UNCHANGED <<payload, command, written, last_connect_attempt, now,
                   port_present, last_stop_ts, stops, callbacks, threadVars,
                   port_busy, attempts>>
    /\ UNCHANGED verifierVars

\* the end of the with block of line 97
SendRelease ==
    /\ mqtt_pc = "release"
    /\ Release("mqtt")
    /\ mqtt_pc' = "write"
    /\ UNCHANGED <<payload, command, written, arduino_serial,
                   last_connect_attempt, now, port_present, last_stop_ts,
                   stops, callbacks, reconnect_pc, reconnect_wake, deliveries,
                   port_busy, attempts>>
    /\ UNCHANGED verifierVars

\* what a send_to_arduino call that has returned leaves behind
Delivery(cmd, result, chunks) ==
    [command |-> cmd, result |-> result, written |-> chunks]

\* the chunks go out whether the link is open or not
SendWrite_WritesAnyway ==
    /\ mqtt_pc = "write"
    /\ written' = Chunks(command.v \o <<"\n">>)
    /\ mqtt_pc' = "idle"
    /\ deliveries' = Append(deliveries, Delivery(command, TRUE, written'))
    /\ UNCHANGED <<payload, command, arduino_serial, last_connect_attempt,
                   now, port_present, last_stop_ts, stops, callbacks,
                   arduino_lock, reconnect_pc, reconnect_wake, port_busy,
                   attempts>>
    /\ UNCHANGED verifierVars

\* lines 101-116 and 125-128, outside the lock: with the link open the
\* chunks are written and flushed one by one and the call returns True, or
\* a write or flush raises after k chunks; with the link not open nothing
\* is written and the call returns False
SendWrite ==
    /\ mqtt_pc = "write"
    /\ IF arduino_serial = "open"
       THEN LET chunks == Chunks(command.v \o <<"\n">>)
            IN  \/ /\ written' = chunks
                   /\ mqtt_pc' = "idle"
                   /\ deliveries' =
                         Append(deliveries, Delivery(command, TRUE, chunks))
                \/ \E k \in 0..Len(chunks) :
                      /\ written' = SubSeq(chunks, 1, k)
                      /\ mqtt_pc' = "close"
                      /\ UNCHANGED deliveries
       ELSE /\ UNCHANGED written
            /\ mqtt_pc' = "idle"
            /\ deliveries' =
                  Append(deliveries, Delivery(command, FALSE, written))
    /\ UNCHANGED <<payload, command, arduino_serial, last_connect_attempt,
                   now, port_present, last_stop_ts, stops, callbacks,
                   arduino_lock, reconnect_pc, reconnect_wake, port_busy,
                   attempts>>
    /\ UNCHANGED verifierVars

\* lines 117-124: after the failed write the handle is closed under the
\* lock and the call returns False
SendClose ==
    /\ mqtt_pc = "close"
    /\ arduino_lock = "free"
    /\ arduino_serial' = "closed"
    /\ mqtt_pc' = "idle"
    /\ deliveries' = Append(deliveries, Delivery(command, FALSE, written))
    /\ UNCHANGED <<payload, command, written, last_connect_attempt, now,
                   port_present, last_stop_ts, stops, callbacks, arduino_lock,
                   reconnect_pc, reconnect_wake, port_busy, attempts>>
    /\ UNCHANGED verifierVars

\* an alert, and a text message whose command takes two chunks
BridgePayloads ==
    {[action |-> PyStr(Alert), container |-> PyStr(Container2)],
     [action |-> PyStr(SendSms), phone |-> PyStr(<<"1", "2", "3">>),
      message |-> PyStr(LongMessage)]}

\* on_message for one of the first MaxMessages messages
BridgeReceive ==
    /\ Len(deliveries) < MaxMessages
    /\ \E p \in BridgePayloads : OnMessage(p)

BridgeNext ==
    \/ MainConnect
    \/ ReconnectAcquire
    \/ ReconnectCheck
    \/ ReconnectOpen
    \/ ReconnectRelease
    \/ BridgeReceive
    \/ SendAcquire
    \/ SendCheck
    \/ SendOpen
    \/ SendRelease
    \/ SendWrite
    \/ SendClose
    \/ Tick
    \/ PortChange

SpecBridge == AlertInit /\ [][BridgeNext]_vars

\* time.time() has no last value.  For runs without end a second passes
\* by moving every recorded time one second back and leaving now where it
\* is: the differences the code computes are what they would be, a time
\* CONNECT_RETRY_SECONDS or more in the past stays so at 0, and the record
\* of attempts keeps those of the last StartTime seconds.
Back(t) == IF t > 0 THEN t - 1 ELSE 0

StillRecorded(t) == t >= 0

LateTick ==
    /\ mqtt_pc # "main"
    /\ last_connect_attempt' = Back(last_connect_attempt)
    /\ reconnect_wake' = Back(reconnect_wake)
    /\ attempts' =
          SelectSeq([i \in 1..Len(attempts) |-> attempts[i] - 1], StillRecorded)
    /\ UNCHANGED <<mqtt_pc, payload, command, written, arduino_serial, now,
                   port_present, last_stop_ts, stops, callbacks, arduino_lock,
                   reconnect_pc, deliveries, port_busy>>
    /\ UNCHANGED verifierVars

BridgeFairNext ==
    \/ MainConnect
    \/ ReconnectAcquire
    \/ ReconnectCheck
    \/ ReconnectOpen
    \/ ReconnectRelease
    \/ BridgeReceive
    \/ SendAcquire
    \/ SendCheck
    \/ SendOpen
    \/ SendRelease
    \/ SendWrite
    \/ SendClose
    \/ LateTick
    \/ PortChange

\* time passes; a started thread is scheduled again and again, and a thread
\* waiting for arduino_lock gets it when it is free again and again; no
\* MQTT message has to arrive and the port does what it likes
SpecBridgeFair ==
    /\ AlertInit
    /\ [][BridgeFairNext]_vars
    /\ WF_vars(LateTick)
    /\ WF_vars(MainConnect)
    /\ SF_vars(ReconnectAcquire)
    /\ WF_vars(ReconnectCheck)
    /\ WF_vars(ReconnectOpen)
    /\ WF_vars(ReconnectRelease)
    /\ SF_vars(SendAcquire)
    /\ WF_vars(SendCheck)
    /\ WF_vars(SendOpen)
    /\ WF_vars(SendRelease)
    /\ WF_vars(SendWrite)
    /\ SF_vars(SendClose)

(***************************************************************************)
(* serial_read_loop: the lines the Arduino sends, and the debounce of      *)
(* ALARM_STOPPED.                                                          *)
(***************************************************************************)
LowerLetters ==
    <<"a", "b", "c", "d", "e", "f", "g", "h", "i", "j", "k", "l", "m",
      "n", "o", "p", "q", "r", "s", "t", "u", "v", "w", "x", "y", "z">>
UpperLetters ==
    <<"A", "B", "C", "D", "E", "F", "G", "H", "I", "J", "K", "L", "M",
      "N", "O", "P", "Q", "R", "S", "T", "U", "V", "W", "X", "Y", "Z">>

\* str.upper() on one character
UpperChar(c) ==
    IF \E i \in 1..26 : LowerLetters[i] = c
    THEN UpperLetters[CHOOSE i \in 1..26 : LowerLetters[i] = c]
    ELSE c

\* str.upper()
Upper(s) == [i \in 1..Len(s) |-> UpperChar(s[i])]

\* sub in s
Contains(s, sub) ==
    \E i \in 1..(Len(s) - Len(sub) + 1) : SubSeq(s, i, i + Len(sub) - 1) = sub

AlarmStopped ==
    <<"A", "L", "A", "R", "M", "_", "S", "T", "O", "P", "P", "E", "D">>

\* the digits of s from position i on, as far as they go
RECURSIVE DigitRun(_, _)
DigitRun(s, i) ==
    IF i <= Len(s) /\ IsDigit(s[i]) THEN <<s[i]>> \o DigitRun(s, i + 1) ELSE <<>>

\* re.search(r'C(\d+)', s), line 266: group 1 of the leftmost match, or None
SearchCNumber(s) ==
    LET starts == {i \in 1..(Len(s) - 1) : s[i] = "C" /\ IsDigit(s[i + 1])}
    IN  IF starts = {} THEN PyNone
        ELSE LET first == CHOOSE i \in starts : \A j \in starts : i <= j
             IN  PyStr(DigitRun(s, first + 1))

\* lines 263-271: the container a stop line is for; no number and the
\* number 0 fall back to 1
StoppedContainerId(line) ==
    LET m == SearchCNumber(Upper(line))
        container_num == IF m # PyNone /\ DecimalValue(m.v) # 0
                         THEN DecimalValue(m.v) ELSE 1
    IN  <<"c", "o", "n", "t", "a", "i", "n", "e", "r">>
            \o StrOf(PyInt(container_num))

\* last_stop_ts.get(container_id, 0), line 274
LastStop(ts, container_id) ==
    IF container_id \in DOMAIN ts THEN ts[container_id] ELSE 0

\* the debounce with a rejected stop restarting the window
Debounce_ExtendsWindow(ts, container_id, t) ==
    [accepted |-> t - (IF container_id \in DOMAIN ts THEN ts[container_id] ELSE 0)
                      >= StopWindowSeconds,
     ts |-> [k \in DOMAIN ts \cup {container_id} |->
                IF k = container_id THEN t ELSE ts[k]]]

\* lines 273-278: a stop within StopWindowSeconds of the last accepted stop
\* of its container is ignored and leaves the table alone; any other stop is
\* accepted and recorded
Debounce(ts, container_id, t) ==
    IF t - LastStop(ts, container_id) < StopWindowSeconds
    THEN [accepted |-> FALSE, ts |-> ts]
    ELSE [accepted |-> TRUE,
          ts |-> [k \in DOMAIN ts \cup {container_id} |->
                     IF k = container_id THEN t ELSE ts[k]]]

StopC2 == AlarmStopped \o <<" ", "C", "2">>
StopNoNumber == AlarmStopped
StopLowerC0 ==
    <<"a", "l", "a", "r", "m", "_", "s", "t", "o", "p", "p", "e", "d", " ", "c", "0">>
ReadyLine == <<"R", "E", "A", "D", "Y", " ", "C", "2">>

\* what readline() returns after strip(): stop lines, another line, and the
\* empty line of a read that timed out
SerialLines == {StopC2, StopNoNumber, StopLowerC0, ReadyLine, <<>>}

\* serial_read_loop, lines 246-290: one turn of the loop with the link open.
\* stops is the record of the stop lines read and when; callbacks is the
\* POSTs to /alarm/stopped/<container_id>, made whether or not the backend
\* answers.
ReadLine(line) ==
    /\ mqtt_pc # "main"
    /\ arduino_serial = "open"
    /\ Len(stops) < MaxStops
    /\ IF line # <<>> /\ Contains(Upper(line), AlarmStopped)
       THEN LET container_id == StoppedContainerId(line)
                d == Debounce(last_stop_ts, container_id, now)
            IN  /\ stops' = Append(stops, [line |-> line, at |-> now])
                /\ last_stop_ts' = d.ts
                /\ callbacks' =
                      IF d.accepted
                      THEN Append(callbacks,
                                  [container_id |-> container_id, at |-> now])
                      ELSE callbacks
       ELSE UNCHANGED <<last_stop_ts, stops, callbacks>>
    /\ UNCHANGED <<mqtt_pc, payload, command, written, arduino_serial,
                   last_connect_attempt, now, port_present>>
    /\ UNCHANGED <<threadVars, port_busy, attempts>>
    /\ UNCHANGED verifierVars

SerialRead == \E line \in SerialLines : ReadLine(line)

\* the bridge after main() has opened the link
DebounceInit ==
    /\ VerifierIdle
    /\ mqtt_pc = "idle"
    /\ payload = PyNone
    /\ command = PyNone
    /\ written = <<>>
    /\ arduino_serial = "open"
    /\ last_connect_attempt = StartTime
    /\ now = StartTime
    /\ port_present = TRUE
    /\ last_stop_ts = <<>>
    /\ stops = <<>>
    /\ callbacks = <<>>
    /\ arduino_lock = "free"
    /\ reconnect_pc = "sleep"
    /\ reconnect_wake = StartTime
    /\ port_busy = FALSE
    /\ attempts = <<StartTime>>
    /\ deliveries = <<>>

DebounceNext ==
    \/ SerialRead
    \/ Tick

SpecDebounce == DebounceInit /\ [][DebounceNext]_vars

(***************************************************************************)
(* Properties of the verdict.                                              *)
(***************************************************************************)
\* the handler returned a verdict (not an HTTP error)
Answered == pc = "done" /\ response.kind = "verdict"

\* the except branch of the inference block returned the failure result
Recovered == Answered /\ response.knnVerification = PyNone

\* the handler ran to its end and returned the verdict it computed
Returned == Answered /\ response.knnVerification # PyNone

LabelSet == Truthy(expected_label)

\* survivors whose label is the expected one / another one, lower-cased
ExpectedSurvivors ==
    {i \in 1..Len(filtered_detections) :
        Lower(filtered_detections[i].class_name) = expected_label.v}

ForeignSurvivors ==
    {i \in 1..Len(filtered_detections) :
        Lower(filtered_detections[i].class_name) # expected_label.v}

SurvivorLabels ==
    {filtered_detections[i].class_name : i \in 1..Len(filtered_detections)}

\* C1 as the specification states it: a passing verdict for an expected
\* label has exactly one classesDetected entry, carrying the expected label
\* (compared without case) and, when the count is constrained, n equal to it.
C1_ExactlyOneEntry ==
    (Returned /\ LabelSet /\ response.pass_) =>
        /\ Len(response.classesDetected) = 1
        /\ Lower(response.classesDetected[1].label) = expected_label.v
        /\ (expected_count > 0 => response.classesDetected[1].n = expected_count)

\* C1 (amended): a passing verdict for an expected label has at least one
\* classesDetected entry, every entry's label equals the expected label once
\* lower-cased, the n of the entries add up to the expected count when it is
\* constrained, and there is one entry per exact label among the survivors
\* (so exactly one unless survivors differ in letter case only).
C1_PassImpliesOnlyExpectedLabel ==
    (Returned /\ LabelSet /\ response.pass_) =>
        /\ Len(response.classesDetected) >= 1
        /\ \A i \in 1..Len(response.classesDetected) :
              Lower(response.classesDetected[i].label) = expected_label.v
        /\ (expected_count > 0 => SumN(response.classesDetected) = expected_count)
        /\ Len(response.classesDetected) = Cardinality(SurvivorLabels)

C1_Witness ==
    /\ Returned /\ LabelSet /\ response.pass_
    /\ expected_count = 2
    /\ Len(response.classesDetected) = 2

\* C2: with an expected label, one survivor whose label differs from it
\* (without case) makes the verdict fail, whatever the counts.
C2_ForeignTypeFails ==
    (Returned /\ LabelSet /\ ForeignSurvivors # {}) => ~response.pass_

C2_Witness ==
    /\ Returned /\ LabelSet /\ ~response.pass_
    /\ ForeignSurvivors # {}
    /\ expected_count > 0
    /\ Cardinality(ExpectedSurvivors) = expected_count

\* C3: with an expected label, the verdict passes exactly when no survivor
\* has another label, some survivor has the expected label, and the count is
\* unconstrained or equals the number of expected-label survivors.
C3_LabelModePassIff ==
    (Returned /\ LabelSet) =>
        (response.pass_ <=>
            /\ ForeignSurvivors = {}
            /\ ExpectedSurvivors # {}
            /\ (expected_count > 0 =>
                    Cardinality(ExpectedSurvivors) = expected_count))

C3_Witness ==
    /\ Returned /\ LabelSet /\ ~response.pass_
    /\ ForeignSurvivors = {}
    /\ ExpectedSurvivors # {}
    /\ expected_count > 0

\* C4: without an expected label, the verdict passes exactly when the count
\* is unconstrained or equals the number of survivors, and the confidence
\* reaches the threshold; no survivors means fail.
C4_NoLabelPassIff ==
    (Returned /\ ~LabelSet) =>
        /\ response.pass_ <=>
              /\ (expected_count <= 0 \/ Len(filtered_detections) = expected_count)
              /\ ReachesThreshold(response.confidence)
        /\ (Len(filtered_detections) = 0 => ~response.pass_)

C4_Witness ==
    /\ Returned /\ ~LabelSet /\ response.pass_
    /\ expected_count = 0
    /\ Len(filtered_detections) > 1

MismatchReasons ==
    {"none", "no-detection", "low-confidence", "foreign-type",
     "type-not-found", "count-mismatch"}

\* C5 as the specification states it: every verdict carries a mismatchReason
\* of the six, none exactly when pass is true, and without a label a failing
\* verdict's reason is no-detection, else low-confidence, else count-mismatch.
C5_CarriesMismatchReason ==
    Returned =>
        /\ "mismatchReason" \in DOMAIN response
        /\ response.mismatchReason \in MismatchReasons
        /\ (response.mismatchReason = "none" <=> response.pass_)
        /\ (~LabelSet /\ ~response.pass_) =>
              response.mismatchReason =
                 IF response.count = 0 THEN "no-detection"
                 ELSE IF ~ReachesThreshold(response.confidence)
                      THEN "low-confidence"
                      ELSE "count-mismatch"

\* C5 (amended): a verdict has no mismatchReason: it is pass, count,
\* classesDetected and confidence.  Without a label every failing verdict
\* has total count 0, or a confidence below the threshold, or a constrained
\* count that differs from the total: the three causes cover every failure,
\* and none of them holds of a passing verdict.
C5_FailureCausesWithoutReason ==
    Returned =>
        /\ DOMAIN response =
              {"kind", "pass_", "count", "classesDetected", "confidence",
               "annotatedImagePath", "knnVerification"}
        /\ ~LabelSet =>
              (~response.pass_ <=>
                  \/ response.count = 0
                  \/ ~ReachesThreshold(response.confidence)
                  \/ (expected_count > 0 /\ response.count # expected_count))

C5_Witness ==
    /\ Returned /\ ~LabelSet /\ ~response.pass_
    /\ response.count > 0
    /\ ReachesThreshold(response.confidence)
    /\ response.count # expected_count

(***************************************************************************)
(* Properties of the error handling.                                       *)
(***************************************************************************)
\* where the handler is inside the try block of the inference
InferenceStages ==
    {"detect", "dedup", "aggregate", "annotate", "decide", "crosscheck"}

\* C13: a handler that is in the inference block without a detector leaves
\* it at once, and whenever the block is left other than by its end (no
\* detector, or a step raises) the handler returns a verdict with pass
\* false, count 0, no classes and confidence 0.0, whatever it had computed.
C13_FailureRecovered ==
    [][ /\ (pc = "detect" /\ ~yolo_model) => pc' = "done"
        /\ (pc \in InferenceStages /\ pc' = "done") =>
              /\ response'.kind = "verdict"
              /\ response'.pass_ = FALSE
              /\ response'.count = 0
              /\ response'.classesDetected = <<>>
              /\ response'.confidence = Zero ]_vars

\* the block is left after a passing verdict for two pills was computed
C13_Witness ==
    /\ Recovered
    /\ pass_ = TRUE /\ detected_count = 2
    /\ response.pass_ = FALSE /\ response.count = 0

\* a verdict with every field of its type
WellFormed(r) ==
    /\ r.kind = "verdict"
    /\ DOMAIN r = {"kind", "pass_", "count", "classesDetected", "confidence",
                   "annotatedImagePath", "knnVerification"}
    /\ r.pass_ \in BOOLEAN
    /\ r.count \in Nat
    /\ \A i \in 1..Len(r.classesDetected) :
          /\ DOMAIN r.classesDetected[i] = {"label", "n"}
          /\ r.classesDetected[i].n \in Nat
    /\ r.confidence.den > 0
    /\ 0 <= r.confidence.num /\ r.confidence.num <= 100 * r.confidence.den
    /\ r.annotatedImagePath.t \in {"none", "str"}

C14_WitnessCount ==
    /\ Returned
    /\ expected = [k \in {"count"} |-> PyStr(<<"x">>)]
    /\ expected_count = 0
    /\ response.pass_ /\ response.count = 2

(***************************************************************************)
(* Properties of the expected label.                                       *)
(***************************************************************************)
\* a value that is given and is not blank
NonEmptyValue(x) == Truthy(x) /\ Strip(StrOf(x)) # <<>>

\* the first value under LabelKeys[i], LabelKeys[i + 1], ... that is not
\* empty, trimmed and lower-cased; None when there is none
RECURSIVE FirstNonEmpty(_, _)
FirstNonEmpty(obj, i) ==
    IF i > Len(LabelKeys) THEN PyNone
    ELSE IF NonEmptyValue(DictGet(obj, LabelKeys[i]))
         THEN PyStr(Lower(Strip(StrOf(DictGet(obj, LabelKeys[i])))))
         ELSE FirstNonEmpty(obj, i + 1)

\* the request was accepted and its expected field is a JSON object
LabelParsed ==
    /\ pc # "parse"
    /\ response # Http400
    /\ IsDict(JsonLoads(expected))

\* C15: the expected label is the first value, in the order label, pill,
\* pillType, pill_name, that is not empty, trimmed and lower-cased; a value
\* that is empty, or blank once trimmed, is passed over for the next key;
\* the label is absent only when no key has such a value; and a verdict
\* whose survivors all carry that label in any letter case, with the count
\* unconstrained, passes.
C15_FirstNonEmptyLabel ==
    LabelParsed =>
        LET label == FirstNonEmpty(JsonLoads(expected), 1)
        IN  /\ IF label = PyNone
               THEN ~Truthy(expected_label)
               ELSE expected_label = label
            /\ ( /\ Returned
                 /\ label # PyNone
                 /\ expected_count <= 0
                 /\ filtered_detections # <<>>
                 /\ \A i \in 1..Len(filtered_detections) :
                       Lower(filtered_detections[i].class_name) = label.v )
               => response.pass_

(***************************************************************************)
(* Properties of the classifier cross-check.                               *)
(***************************************************************************)
\* the cross-check stage is over
CrossChecked == pc = "respond" \/ Returned

\* the records the cross-check makes of the predictions
PredictionRecords ==
    [i \in 1..Len(knn_predictions) |->
        KnnRecord(i - 1, filtered_detections[i], knn_predictions[i],
                  expected_label)]

\* the classifier answered for every survivor, with the detector's label
\* and, when a label is expected, with the expected one
ZeroDisagreements ==
    /\ knn_model
    /\ Len(knn_predictions) = Len(filtered_detections)
    /\ \A i \in 1..Len(knn_predictions) :
          /\ PredictionRecords[i].knn_class # PyNone
          /\ PredictionRecords[i].matches_yolo
          /\ PredictionRecords[i].matches_expected

\* pass, count, classesDetected and confidence as the verdict engine gives
\* them for the survivors and the expectation, no classifier involved
EngineOutput ==
    LET classes == CountByClass(filtered_detections, <<>>)
        mean == MeanConfidence(filtered_detections)
    IN  [pass_ |-> Decide(classes, SumN(classes), mean, expected_label,
                          expected_count),
         count |-> SumN(classes),
         classesDetected |-> classes,
         confidence |-> mean]

FourFields(r) ==
    [pass_ |-> r.pass_, count |-> r.count,
     classesDetected |-> r.classesDetected, confidence |-> r.confidence]

ClassifierForeign ==
    {i \in 1..Len(knn_predictions) :
        /\ knn_predictions[i] # PyNone
        /\ Lower(knn_predictions[i].v) # expected_label.v}

\* survivors on which the classifier and the detector agree
ClassifierAgrees ==
    {i \in 1..Len(knn_predictions) :
        /\ knn_predictions[i] # PyNone
        /\ Lower(knn_predictions[i].v)
              = Lower(filtered_detections[i].class_name)}

OutputOf(dets, field) ==
    LET survivors ==
            FilterDuplicates(SortByConfidence(CollectDetections(dets)), <<>>)
        classes == CountByClass(survivors, <<>>)
        mean == MeanConfidence(survivors)
    IN  [pass_ |-> Decide(classes, Len(survivors), mean,
                          ParseLabel(JsonLoads(field)),
                          ParseCount(JsonLoads(field))),
         count |-> Len(survivors),
         classesDetected |-> classes,
         confidence |-> mean]

\* C18: the pass, count, classesDetected and confidence of a returned
\* verdict are a function of the detection list and the expected field,
\* whatever the clock, the classifier and the captures directory; the clock
\* shows in the annotated image's name only; and a call leaves the loaded
\* models as they are, so it changes nothing for other calls.
C18_Deterministic ==
    /\ [](Returned =>
            /\ FourFields(response) = OutputOf(results, expected)
            /\ response.annotatedImagePath
                  \in {PyNone, PyStr(AnnotatedFilename(clock))})
    /\ [][yolo_model' = yolo_model /\ knn_model' = knn_model]_vars

\* a passing verdict returned at the later time, with a classifier loaded
C18_Witness ==
    /\ Returned
    /\ clock = 1001 /\ knn_model
    /\ response.pass_ /\ response.count = 2
    /\ response.annotatedImagePath = PyStr(AnnotatedFilename(1001))

(***************************************************************************)
(* Properties of the aggregation.                                          *)
(***************************************************************************)
SurvivorsLabelled(label) ==
    {i \in 1..Len(filtered_detections) :
        filtered_detections[i].class_name = label}

\* C11: in a verdict computed from the survivors, classesDetected has one
\* entry per exact label among the survivors and no label twice, each n is
\* at least 1 and is the number of survivors with that label, and count is
\* the number of survivors and the sum of the n; failing verdicts included.
C11_LabelCountsPartitionSurvivors ==
    Returned =>
        LET classes == response.classesDetected
        IN  /\ \A i, j \in 1..Len(classes) :
                  i # j => classes[i].label # classes[j].label
            /\ {classes[i].label : i \in 1..Len(classes)} = SurvivorLabels
            /\ \A i \in 1..Len(classes) :
                  /\ classes[i].n >= 1
                  /\ classes[i].n = Cardinality(SurvivorsLabelled(classes[i].label))
            /\ response.count = Len(filtered_detections)
            /\ response.count = SumN(classes)

\* a failing verdict whose count includes a foreign survivor
C11_Witness ==
    /\ Returned /\ LabelSet /\ ~response.pass_
    /\ ForeignSurvivors # {} /\ ExpectedSurvivors # {}
    /\ response.count = 2
    /\ Len(response.classesDetected) = 2

\* two quotients are the same number
SameNumber(a, b) == a.num * b.den = b.num * a.den

\* C12 as the specification states it: the confidence of a verdict is the
\* mean of the survivors' confidences weighted by their areas, the plain
\* mean when the areas add up to 0, and 0.0 without survivors.
C12_AreaWeightedMean ==
    Returned =>
        IF filtered_detections = <<>>
        THEN response.confidence = Zero
        ELSE IF SumArea(filtered_detections) > 0
        THEN SameNumber(response.confidence,
                        [num |-> SumWeighted(filtered_detections),
                         den |-> SumArea(filtered_detections)])
        ELSE SameNumber(response.confidence,
                        [num |-> SumConfidence(filtered_detections),
                         den |-> Len(filtered_detections)])

\* C12 (amended): the confidence of a verdict is the plain mean of the
\* survivors' confidences, whatever their areas: times the number of
\* survivors it is the sum of their confidences, so it lies between the
\* least and the greatest of them; it is 0.0 without survivors.
C12_ArithmeticMean ==
    Returned =>
        IF filtered_detections = <<>>
        THEN response.confidence = Zero
        ELSE /\ response.confidence.den > 0
             /\ response.confidence.num * Len(filtered_detections)
                   = SumConfidence(filtered_detections) * response.confidence.den
             /\ \E i \in 1..Len(filtered_detections) :
                   filtered_detections[i].confidence * response.confidence.den
                       <= response.confidence.num
             /\ \E i \in 1..Len(filtered_detections) :
                   filtered_detections[i].confidence * response.confidence.den
                       >= response.confidence.num

\* two survivors of different area and confidence
C12_Witness ==
    /\ Returned
    /\ Len(filtered_detections) = 2
    /\ filtered_detections[1].confidence = 90
    /\ filtered_detections[2].confidence = 30
    /\ filtered_detections[1].area # filtered_detections[2].area
    /\ response.confidence = [num |-> 120, den |-> 2]

(***************************************************************************)
(* Properties of the detections that reach the verdict.                    *)
(***************************************************************************)
\* the duplicate filter has run
Deduped ==
    \/ pc \in {"aggregate", "annotate", "decide", "crosscheck", "respond"}
    \/ Returned

Dup(b1, b2) == IsDuplicateIou(calculate_iou(b1, b2))

Occurrences(seq, d) == Cardinality({i \in 1..Len(seq) : seq[i] = d})

\* a detection as the detector returned it, without the derived area
Bare(seq) ==
    [i \in 1..Len(seq) |->
        [class_name |-> seq[i].class_name, confidence |-> seq[i].confidence,
         box |-> seq[i].box]]

\* thresholds a quality filter could be configured with
QualityConfigs ==
    [minConfidence : {YoloConf}, minArea : 0..(MaxCoord + 1),
     maxAspectRatio : 1..(MaxCoord + 1)]

\* C6 as the specification states it: whatever thresholds are configured,
\* a detection counts only if its confidence, area and aspect ratio are
\* within them.
C6_QualityFilterApplied ==
    Deduped =>
        \A q \in QualityConfigs : \A i \in 1..Len(filtered_detections) :
            LET d == filtered_detections[i]
            IN  /\ d.confidence >= q.minConfidence
                /\ d.area >= q.minArea
                /\ d.box[3] - d.box[1] <= q.maxAspectRatio * (d.box[4] - d.box[2])

\* C6 (amended): the only gate before duplicate suppression is the
\* confidence floor given to the detector.  Every detection the detector
\* returns reaches the confidence floor and enters duplicate suppression
\* whatever its area and aspect ratio, and it is counted unless it overlaps
\* another returned detection by more than the IoU threshold; the verdict's
\* count is the number of survivors.
C6_OnlyDetectorFloorGates ==
    Deduped =>
        /\ \A i \in 1..Len(results) : results[i].confidence >= YoloConf
        /\ Len(all_detections) = Len(results)
        /\ \A i \in 1..Len(results) :
              /\ Occurrences(Bare(all_detections), results[i])
                    = Occurrences(results, results[i])
              /\ (\A k \in 1..Len(results) :
                      k # i => ~Dup(results[k].box, results[i].box))
                  => \E j \in 1..Len(filtered_detections) :
                        Bare(filtered_detections)[j] = results[i]
        /\ Returned => response.count = Len(filtered_detections)

C6_Witness ==
    /\ Returned
    /\ response.count = 2
    /\ \E i \in 1..Len(filtered_detections) :
          /\ filtered_detections[i].area = 1
          /\ filtered_detections[i].confidence = YoloConf

(***************************************************************************)
(* Properties of duplicate suppression.                                    *)
(***************************************************************************)
\* C7: no two accepted detections overlap by more than the threshold, and
\* every discarded detection overlaps, by more than the threshold, an
\* accepted detection of greater or equal confidence.
C7_SuppressionSound ==
    Deduped =>
        /\ \A i, j \in 1..Len(filtered_detections) :
              i # j => ~Dup(filtered_detections[i].box, filtered_detections[j].box)
        /\ \A p \in 1..Len(all_detections) :
              LET d == all_detections[p]
              IN  /\ Occurrences(filtered_detections, d)
                        <= Occurrences(all_detections, d)
                  /\ Occurrences(filtered_detections, d)
                        < Occurrences(all_detections, d)
                     => \E j \in 1..Len(filtered_detections) :
                           /\ Dup(d.box, filtered_detections[j].box)
                           /\ filtered_detections[j].confidence >= d.confidence
        /\ \A j \in 1..Len(filtered_detections) :
              Occurrences(all_detections, filtered_detections[j]) > 0

\* three detections, two accepted, the discarded one below its suppressor
C7_Witness ==
    /\ Deduped
    /\ Len(all_detections) = 3
    /\ Len(filtered_detections) = 2
    /\ \E p \in 1..3 :
          /\ Occurrences(filtered_detections, all_detections[p]) = 0
          /\ all_detections[p].confidence < filtered_detections[1].confidence
          /\ Dup(all_detections[p].box, filtered_detections[1].box)

NonIncreasing(seq) ==
    \A i \in 1..(Len(seq) - 1) : seq[i].confidence >= seq[i + 1].confidence

WithConfidence(seq, c) == SelectSeq(seq, LAMBDA d : d.confidence = c)

RECURSIVE IsSubsequence(_, _)
IsSubsequence(sub, seq) ==
    IF sub = <<>> THEN TRUE
    ELSE IF seq = <<>> THEN FALSE
    ELSE IF Head(sub) = Head(seq) THEN IsSubsequence(Tail(sub), Tail(seq))
    ELSE IsSubsequence(sub, Tail(seq))

\* results[k] is looked at after results[i]
ProcessedAfter(k, i) ==
    \/ results[k].confidence < results[i].confidence
    \/ (results[k].confidence = results[i].confidence /\ k > i)

Accepted(d) ==
    \E j \in 1..Len(filtered_detections) : Bare(filtered_detections)[j] = d

\* C8: the candidates are processed by confidence, highest first, equal
\* confidences in the detector's order; the output is the accepted
\* detections in that order, so it is non-increasing in confidence; and of
\* two overlapping detections of equal confidence the earlier one is kept
\* (when nothing processed before it suppresses it) and the later one is not.
C8_ConfidenceOrderStableTies ==
    Deduped =>
        /\ NonIncreasing(all_detections)
        /\ \A c \in ConfValues :
              Bare(WithConfidence(all_detections, c)) = WithConfidence(results, c)
        /\ IsSubsequence(filtered_detections, all_detections)
        /\ NonIncreasing(filtered_detections)
        /\ \A i, j \in 1..Len(results) :
              ( /\ i < j
                /\ results[i].confidence = results[j].confidence
                /\ results[i] # results[j]
                /\ Dup(results[i].box, results[j].box)
                /\ \A k \in 1..Len(results) :
                      (k # i /\ Dup(results[k].box, results[i].box))
                          => ProcessedAfter(k, i) )
              => (Accepted(results[i]) /\ ~Accepted(results[j]))

\* two overlapping detections of equal confidence after a stronger one
C8_Witness ==
    /\ Deduped
    /\ Len(results) = 3
    /\ results[1].confidence < results[2].confidence
    /\ results[1].confidence = results[3].confidence
    /\ results[1] # results[3]
    /\ Dup(results[1].box, results[3].box)
    /\ ~Dup(results[1].box, results[2].box)
    /\ Bare(filtered_detections) = <<results[2], results[1]>>

\* C9: the duplicate suppressor (sort, then filter) leaves its own output
\* unchanged: same detections, same order.
C9_SuppressionIdempotent ==
    Deduped =>
        FilterDuplicates(SortByConfidence(filtered_detections), <<>>)
            = filtered_detections

\* an output of two detections, obtained by discarding a third
C9_Witness ==
    /\ Deduped
    /\ Len(results) = 3
    /\ Len(filtered_detections) = 2
    /\ filtered_detections[1].confidence = filtered_detections[2].confidence
    /\ filtered_detections[1] # filtered_detections[2]

(***************************************************************************)
(* Properties of calculate_iou, under SpecIou.                             *)
(***************************************************************************)
Called == iou # PyNone

\* width and height of the intersection rectangle, from the coordinates
OverlapWidth == Min(box1[3], box2[3]) - Max(box1[1], box2[1])
OverlapHeight == Min(box1[4], box2[4]) - Max(box1[2], box2[2])

\* C10: calculate_iou is symmetric, lies in [0, 1] with a non-zero divisor,
\* is 1 on a box of positive area with itself, and is 0.0 when the
\* intersection has no width or no height or the union has no area.
C10_IouSymmetricBounded ==
    Called =>
        /\ iou = calculate_iou(box2, box1)
        /\ iou.den > 0
        /\ 0 <= iou.num /\ iou.num <= iou.den
        /\ (box1 = box2 /\ BoxArea(box1) > 0) => iou.num = iou.den
        /\ (OverlapWidth <= 0 \/ OverlapHeight <= 0) => iou = Zero
        /\ (BoxArea(box1) = 0 \/ BoxArea(box2) = 0) => iou = Zero
        /\ (OverlapWidth > 0 /\ OverlapHeight > 0) =>
              /\ iou.num = OverlapWidth * OverlapHeight
              /\ iou.den = BoxArea(box1) + BoxArea(box2) - iou.num

\* a partial overlap
C10_Witness ==
    /\ Called
    /\ 0 < iou.num /\ iou.num < iou.den

\* a box of no area against a box that contains it
C10_WitnessDegenerate ==
    /\ Called
    /\ BoxArea(box1) = 0 /\ BoxArea(box2) > 0
    /\ box2[1] <= box1[1] /\ box1[3] <= box2[3]
    /\ iou = Zero

(***************************************************************************)
(* Properties of the bridge, under SpecAlert.                              *)
(***************************************************************************)
IsAlert(p) == IsDict(p) /\ DictGet(p, "action") = PyStr(Alert)

\* the bytes of a list of chunks, in order
RECURSIVE Bytes(_)
Bytes(chunks) == IF chunks = <<>> THEN <<>> ELSE Head(chunks) \o Bytes(Tail(chunks))

\* the step in which send_to_arduino handles the command of an alert
SendingAlert == mqtt_pc = "write" /\ mqtt_pc' = "idle" /\ IsAlert(payload)

AlertNumberOf(container) ==
    CASE container = PyStr(Container2) -> <<"2">>
      [] container = PyInt(3)          -> <<"3">>
      [] container = PyBool(TRUE)      -> <<"T", "r", "u", "e">>
      [] OTHER                         -> <<"0">>

AlertLineOf(p) ==
    PillAlertC \o AlertNumberOf(DictGet(p, "container")) \o <<"\n">>

ContainerOfLine(line) == IF line = StopC2 THEN Container2 ELSE Container1

\* stop i of the history h is accepted when no accepted earlier stop of its
\* container is less than StopWindowSeconds before it
RECURSIVE AcceptedAt(_, _)
AcceptedAt(h, i) ==
    \A j \in 1..(i - 1) :
        (ContainerOfLine(h[j].line) = ContainerOfLine(h[i].line) /\ AcceptedAt(h, j))
            => h[i].at - h[j].at >= StopWindowSeconds

\* the callbacks the accepted stops of the first n stops of h call for
RECURSIVE CallbacksOf(_, _)
CallbacksOf(h, n) ==
    IF n = 0 THEN <<>>
    ELSE IF AcceptedAt(h, n)
    THEN Append(CallbacksOf(h, n - 1),
                [container_id |-> ContainerOfLine(h[n].line), at |-> h[n].at])
    ELSE CallbacksOf(h, n - 1)

\* C20: two callbacks for one container are at least 5 seconds apart, and
\* the callbacks are exactly those of the stop lines that come 5 seconds or
\* more after the last accepted stop of their own container: a stop inside
\* the window calls nothing and does not move the window, and the stops of
\* another container count for nothing.
C20_StopDebounce ==
    /\ \A i, j \in 1..Len(callbacks) :
          (i < j /\ callbacks[i].container_id = callbacks[j].container_id)
              => callbacks[j].at - callbacks[i].at >= StopWindowSeconds
    /\ callbacks = CallbacksOf(stops, Len(stops))

\* container2 stops at t, is ignored at t + 3 and is accepted again at
\* t + 5, two seconds after the ignored stop, while a stop of container1 at
\* t + 3 is accepted
C20_Witness ==
    /\ Len(stops) = 4
    /\ ContainerOfLine(stops[1].line) = Container2
    /\ ContainerOfLine(stops[2].line) = Container2
    /\ ContainerOfLine(stops[3].line) = Container1
    /\ ContainerOfLine(stops[4].line) = Container2
    /\ stops[2].at = stops[1].at + 3
    /\ stops[3].at = stops[1].at + 3
    /\ stops[4].at = stops[1].at + StopWindowSeconds
    /\ callbacks = <<[container_id |-> Container2, at |-> stops[1].at],
                     [container_id |-> Container1, at |-> stops[3].at],
                     [container_id |-> Container2, at |-> stops[4].at]>>

(***************************************************************************)
(* Properties of the bridge's threads, under SpecBridge.                   *)
(***************************************************************************)
\* the call that a thread at "check" makes comes too soon after an attempt
TooSoon ==
    /\ attempts # <<>>
    /\ now - attempts[Len(attempts)] < CONNECT_RETRY_SECONDS

\* C21: any two attempts on the serial port, from main, from the reconnect
\* loop or from send_to_arduino, are at least CONNECT_RETRY_SECONDS apart,
\* and a connect_arduino call made sooner than that after the last attempt
\* returns without touching the port: the thread goes straight to the end
\* of its with block, the link and the record of attempts as they were.
C21_AttemptsRateLimited ==
    /\ [](\A i, j \in 1..Len(attempts) :
             i < j => attempts[j] - attempts[i] >= CONNECT_RETRY_SECONDS)
    /\ [][ (reconnect_pc = "check" /\ reconnect_pc' # "check" /\ TooSoon)
              => /\ reconnect_pc' = "release"
                 /\ arduino_serial' = arduino_serial
                 /\ attempts' = attempts ]_vars
    /\ [][ (mqtt_pc = "check" /\ mqtt_pc' # "check" /\ TooSoon)
              => /\ mqtt_pc' = "release"
                 /\ arduino_serial' = arduino_serial
                 /\ attempts' = attempts ]_vars
    /\ [][ (arduino_serial' = "open" /\ arduino_serial # "open")
              => /\ attempts' # <<>>
                 /\ attempts'[Len(attempts')] <= now
                 /\ mqtt_pc \in {"main", "open"} \/ reconnect_pc = "open" ]_vars

\* a send was dropped with nothing written, and the second attempt on the
\* port, CONNECT_RETRY_SECONDS after main's, opened the link
C21_Witness ==
    /\ attempts = <<StartTime, StartTime + CONNECT_RETRY_SECONDS>>
    /\ arduino_serial = "open"
    /\ Len(deliveries) = 1
    /\ deliveries[1].result = FALSE
    /\ deliveries[1].written = <<>>

\* the chunks of a command and its newline
ChunksOf(cmd) == Chunks(cmd.v \o <<"\n">>)

IsPrefix(a, b) == Len(a) <= Len(b) /\ a = SubSeq(b, 1, Len(a))

\* C25: the bridge keeps no queue and delivers a command at most once.
\* What is written to the link is written in the write step of the call
\* that carries the command, each chunk once and in order; a call that finds
\* the link not open after its connection attempt writes nothing and
\* returns False; a call whose write raises returns False; and once a call
\* has returned nothing is written for its command again, whatever the link
\* does later.
C25_AtMostOnceNoQueue ==
    /\ [](\A i \in 1..Len(deliveries) :
             /\ IsPrefix(deliveries[i].written, ChunksOf(deliveries[i].command))
             /\ deliveries[i].result
                   => deliveries[i].written = ChunksOf(deliveries[i].command))
    /\ [][ \A i \in 1..Len(deliveries) :
              Len(deliveries') >= i /\ deliveries'[i] = deliveries[i] ]_vars
    /\ [][ written' # written
              => \/ mqtt_pc = "idle" /\ written' = <<>>
                 \/ /\ mqtt_pc = "write"
                    /\ arduino_serial = "open"
                    /\ written = <<>>
                    /\ IsPrefix(written', ChunksOf(command)) ]_vars
    /\ [][ (mqtt_pc = "write" /\ mqtt_pc' # "write" /\ arduino_serial # "open")
              => /\ written' = <<>>
                 /\ deliveries' =
                       Append(deliveries, Delivery(command, FALSE, <<>>)) ]_vars
    /\ [][ (mqtt_pc = "close" /\ mqtt_pc' # "close")
              => deliveries' =
                    Append(deliveries, Delivery(command, FALSE, written)) ]_vars

\* the first command found the link down and was dropped; the link was
\* opened afterwards and the second command, a different one, is all that
\* was written to it
C25_Witness ==
    /\ Len(deliveries) = 2
    /\ deliveries[1].result = FALSE
    /\ deliveries[1].written = <<>>
    /\ attempts[Len(attempts)] > StartTime
    /\ deliveries[2].result = TRUE
    /\ deliveries[2].command # deliveries[1].command
    /\ written = ChunksOf(deliveries[2].command)
    /\ arduino_serial = "open"

\* the steps of a connect_arduino call and of the with block around it
InWithBlock == {"check", "open", "release"}

\* C26: with the threads running, a thread is between the check of the
\* link and the end of its connection attempt only while it holds
\* arduino_lock, so never both threads at once; a thread goes to the port
\* only with the link not open, and an open handle is never replaced: a
\* link that is open stays open until send_to_arduino closes it after a
\* failed write.
C26_OneConnectionAttemptAtATime ==
    /\ [](reconnect_pc \in InWithBlock => arduino_lock = "reconnect")
    /\ [](mqtt_pc \in InWithBlock => arduino_lock = "mqtt")
    /\ [](~(reconnect_pc \in InWithBlock /\ mqtt_pc \in InWithBlock))
    /\ []((reconnect_pc = "open" \/ mqtt_pc = "open") => arduino_serial # "open")
    /\ [][ arduino_serial = "open"
              => \/ arduino_serial' = "open"
                 \/ mqtt_pc = "close" /\ arduino_serial' = "closed" ]_vars

\* the reconnect loop is at the port while the MQTT thread waits for the
\* lock with a command to send
C26_Witness ==
    /\ reconnect_pc = "open"
    /\ arduino_lock = "reconnect"
    /\ mqtt_pc = "ensure"

(***************************************************************************)
(* The reconnection of the bridge, under SpecBridgeFair.                   *)
(***************************************************************************)
\* find_arduino_port finds the port and serial.Serial opens it
PortAvailable == port_present /\ ~port_busy

\* C24: a write that failed in send_to_arduino leads to the link being
\* closed, and a link that is not open leads to the link being open or to
\* a moment at which the port is not available, in every run, those in
\* which no further MQTT message arrives included.
C24_ClosedLinkReopens ==
    /\ (mqtt_pc = "close") ~> (arduino_serial = "closed")
    /\ (mqtt_pc # "main" /\ arduino_serial # "open")
           ~> (arduino_serial = "open" \/ ~PortAvailable)

\* the write of the one message received failed after its first chunk, the
\* link was closed, and the reconnect loop has just opened it again
C24_Witness ==
    /\ Len(deliveries) = 1
    /\ deliveries[1].result = FALSE
    /\ deliveries[1].written # <<>>
    /\ mqtt_pc = "idle"
    /\ reconnect_pc = "release"
    /\ last_connect_attempt = now
    /\ arduino_serial = "open"

(***************************************************************************)
(* The mock verifier, under SpecMock.                                      *)
(***************************************************************************)
\* C22 as the specification states it: with MOCK_VERIFIER set, a request
\* whose expected field is JSON and whose upload is an image is answered
\* with a passing verdict of confidence 0.95, the expected count if
\* positive and else 1, and one classesDetected entry for the normalised
\* expected label, or pill_mock without one, with that count.
C22_MockPassingVerdict ==
    (MOCK_VERIFIER /\ pc = "done" /\ image_ok /\ expected # BadJson)
        => /\ response.kind = "verdict"
           /\ response.pass_
           /\ SameNumber(response.confidence, [num |-> 19, den |-> 20])
           /\ response.count = (IF expected_count > 0 THEN expected_count ELSE 1)
           /\ Len(response.classesDetected) = 1
           /\ response.classesDetected[1].n = response.count
           /\ response.classesDetected[1].label =
                 (IF Truthy(expected_label) THEN expected_label.v ELSE PillMock)

\* what the handler does with MOCK_VERIFIER set: every request is answered
\* with HTTP 400 before the expectation is read
C22_MockRejectsEveryRequest ==
    (MOCK_VERIFIER /\ pc = "done")
        => /\ response = Http400
           /\ expected_count = 0
           /\ expected_label = PyNone

\* a request with a JSON expectation and an image, answered under
\* MOCK_VERIFIER
C22_Reached ==
    /\ MOCK_VERIFIER
    /\ pc = "done"
    /\ image_ok
    /\ expected = [k \in {"pill", "count"} |->
                       IF k = "pill" THEN PyStr(<<" ", "A">>) ELSE PyInt(2)]

(***************************************************************************)
(* Overlap and labels, under SpecOverlap.                                  *)
(***************************************************************************)
\* survivor j is of another class than det, at least as confident, and
\* overlaps it by more than the duplicate threshold
ShadowedBy(det, j) ==
    /\ filtered_detections[j].class_name # det.class_name
    /\ filtered_detections[j].confidence >= det.confidence
    /\ Dup(det.box, filtered_detections[j].box)

Shadowed(det) == \E j \in 1..Len(filtered_detections) : ShadowedBy(det, j)

\* det is of a foreign class and shadowed by a survivor of the expected one
ForeignShadowed(det) ==
    /\ Lower(det.class_name) # expected_label.v
    /\ \E j \in 1..Len(filtered_detections) :
          /\ ShadowedBy(det, j)
          /\ Lower(filtered_detections[j].class_name) = expected_label.v

ExpectedTypeCount ==
    Cardinality({j \in 1..Len(filtered_detections) :
                    Lower(filtered_detections[j].class_name) = expected_label.v})

\* C23: a detection that overlaps a survivor of another class, at least as
\* confident, by more than 0.5 is no survivor.  When every detection of a
\* foreign class is shadowed in this way by a survivor of the expected
\* class, no foreign label is in classesDetected and the verdict is decided
\* by the expected class alone: it passes when the count of the expected
\* class matches the expected count, or no count is expected.
C23_OverlapIgnoresLabels ==
    /\ Deduped =>
          \A i \in 1..Len(all_detections) :
              Shadowed(all_detections[i]) =>
                  \A j \in 1..Len(filtered_detections) :
                      filtered_detections[j] # all_detections[i]
    /\ ( /\ Returned
         /\ LabelSet
         /\ \E i \in 1..Len(all_detections) : ForeignShadowed(all_detections[i])
         /\ \A i \in 1..Len(all_detections) :
               Lower(all_detections[i].class_name) # expected_label.v
                   => ForeignShadowed(all_detections[i]) )
        => /\ \A k \in 1..Len(response.classesDetected) :
                 Lower(response.classesDetected[k].label) = expected_label.v
           /\ response.pass_ =
                 (expected_count > 0 => ExpectedTypeCount = expected_count)

\* a pill of class b at confidence 50 lies over a pill of class a at
\* confidence 90; one pill of class a is expected, one is reported, and the
\* verdict passes
C23_Witness ==
    /\ Returned
    /\ expected_count = 1
    /\ \E i \in 1..Len(all_detections) :
          /\ all_detections[i].class_name = <<"b">>
          /\ all_detections[i].confidence = 50
          /\ ForeignShadowed(all_detections[i])
    /\ response.classesDetected = <<[label |-> <<"a">>, n |-> 1]>>
    /\ response.pass_

=============================================================================
